---- MODULE Spec2Model ----
(***************************************************************************)
(* gwcli: the profile store (lib/config.ts), the OAuth authorization flow  *)
(* and the authenticated session provider (lib/auth.ts), and the command   *)
(* handlers that resolve the active profile (commands/*.ts).               *)
(*                                                                         *)
(* Every CLI invocation is an operating-system process of its own; the     *)
(* invocations share only the files under ~/.config/gwcli.  A handler is   *)
(* cut into actions at its awaits: the code between two awaits runs        *)
(* without any other code of the same process in between.                  *)
(***************************************************************************)
EXTENDS Integers, FiniteSets, Sequences, TLC

----------------------------------------------------------------------------
(* Values *)

\* JavaScript's undefined, for a string-valued property or parameter.
Undefined == "<undefined>"

\* A file that does not exist / a null return value.
Null == [null |-> TRUE]

\* JavaScript truthiness of a string-or-undefined value (x || y, !x).
Truthy(v) == v # Undefined /\ v # ""

\* JavaScript truthiness of a number-or-undefined value; 0 stands for both
\* the number 0 and undefined, which no code of the program tells apart.
TruthyNum(n) == n # 0

\* a || b on strings
Or(a, b) == IF Truthy(a) THEN a ELSE b

\* a || b on numbers
OrNum(a, b) == IF TruthyNum(a) THEN a ELSE b

----------------------------------------------------------------------------
(* Bounds *)

\* Time runs from 1 to MaxClock.
MaxClock == 3

\* How many 'tokens' events one session receives.
MaxEvents == 2

\* How many local ports the operating system hands out.
NumPorts == 1

\* How many of the profile names the command lines of the CLI-level
\* specifications use.
NumCliNames == 2

\* The profile names the users type.
AllNames == <<"a", "b", "c">>

ProfileNames == {AllNames[i] : i \in 1..Len(AllNames)}

\* What a --profile flag or GWCLI_PROFILE can hold.
NameInputs == ProfileNames \cup {Undefined, ""}

Ports == 1..NumPorts

----------------------------------------------------------------------------
(* The profile store: the files under CONFIG_DIR *)

\* config.json of a fresh installation.
defaultConfig == [version |-> "1.0", defaultProfile |-> Undefined]

\* The empty configuration directory.
EmptyFs ==
    [ profileDirs   |-> {},
      credentials   |-> [n \in ProfileNames |-> Null],
      profileConfig |-> [n \in ProfileNames |-> Null],
      config        |-> Null ]

\* getConfig(): reads config.json, writing the default one first if missing.
getConfig(f) ==
    IF f.config = Null
    THEN [fs |-> [f EXCEPT !.config = defaultConfig], ret |-> defaultConfig]
    ELSE [fs |-> f, ret |-> f.config]

saveConfig(f, config) == [f EXCEPT !.config = config]

\* profileExists looking at a path no profile directory is at.
profileExistsNever(f, profileName) == FALSE

\* The names for which getProfileDir's join(PROFILES_DIR, name) is PROFILES_DIR
\* itself.
SelfNames == {"", "."}

\* PROFILES_DIR is there once ensureConfigDir or a recursive mkdir has run.
profilesDirExists(f) == f.config # Null \/ f.profileDirs # {}

\* existsSync(getProfileDir(profileName))
profileExists(f, profileName) ==
    IF profileName \in SelfNames THEN profilesDirExists(f)
    ELSE profileName \in f.profileDirs

listProfiles(f) == f.profileDirs

getProfileConfig(f, profileName) ==
    IF profileName \in f.profileDirs THEN f.profileConfig[profileName] ELSE Null

\* saveProfileConfig creating the directory only.
saveProfileConfigNoFile(f, profileName, config) ==
    [f EXCEPT !.profileDirs = @ \cup {profileName}]

saveProfileConfig(f, profileName, config) ==
    [f EXCEPT !.profileDirs = @ \cup {profileName},
              !.profileConfig[profileName] = config]

\* A property read of a parsed JSON object: undefined when it is missing.
Get(object, key) == IF key \in DOMAIN object THEN object[key] ELSE Undefined

\* The string properties of o that JSON.stringify writes: those whose value
\* is not undefined.
Written(o, keys) == {k \in keys : o[k] # Undefined}

\* JSON.stringify(credentials, null, 2): the text of credentials.json, as
\* the properties it holds.  expiry_date is a number, written as it is.
JSONstringify(credentials) ==
    LET top  == Written(credentials, {"clientId", "clientSecret"})
        toks == Written(credentials.tokens,
                        {"access_token", "refresh_token", "scope", "token_type"})
        text == [k \in toks \cup {"expiry_date"} |-> credentials.tokens[k]]
    IN  [k \in top \cup {"tokens"} |-> IF k = "tokens" THEN text ELSE credentials[k]]

\* JSON.parse(text) of a credentials.json, as the ProfileCredentials its
\* readers see.
JSONparse(text) ==
    [ clientId     |-> Get(text, "clientId"),
      clientSecret |-> Get(text, "clientSecret"),
      tokens       |-> [ access_token  |-> Get(text.tokens, "access_token"),
                         refresh_token |-> Get(text.tokens, "refresh_token"),
                         scope         |-> Get(text.tokens, "scope"),
                         token_type    |-> Get(text.tokens, "token_type"),
                         expiry_date   |-> text.tokens.expiry_date ] ]

getProfileCredentials(f, profileName) ==
    IF profileName \in f.profileDirs /\ f.credentials[profileName] # Null
    THEN JSONparse(f.credentials[profileName])
    ELSE Null

\* saveProfileCredentials making the profile it writes the default.
saveProfileCredentialsSetsDefault(f, profileName, credentials) ==
    [f EXCEPT !.profileDirs = @ \cup {profileName},
              !.credentials[profileName] = JSONstringify(credentials),
              !.config = [version |-> "1.0", defaultProfile |-> profileName]]

\* saveProfileCredentials leaving a credentials.json that is there alone.
saveProfileCredentialsKeepsExisting(f, profileName, credentials) ==
    IF profileName \in f.profileDirs /\ f.credentials[profileName] # Null
    THEN f
    ELSE [f EXCEPT !.profileDirs = @ \cup {profileName},
                   !.credentials[profileName] = JSONstringify(credentials)]

saveProfileCredentials(f, profileName, credentials) ==
    [f EXCEPT !.profileDirs = @ \cup {profileName},
              !.credentials[profileName] = JSONstringify(credentials)]

\* rmSync(profileDir, {recursive}): the directory and both files in it.
rmProfileDir(f, profileName) ==
    IF profileName \in SelfNames
    THEN [f EXCEPT !.profileDirs = {},
                   !.credentials = [n \in ProfileNames |-> Null],
                   !.profileConfig = [n \in ProfileNames |-> Null]]
    ELSE [f EXCEPT !.profileDirs = @ \ {profileName},
                   !.credentials[profileName] = Null,
                   !.profileConfig[profileName] = Null]

\* deleteProfile without the check of lines 86-88.
deleteProfileNoCheck(f, profileName) ==
    LET read == getConfig(rmProfileDir(f, profileName))
    IN  [fs  |-> IF read.ret.defaultProfile = profileName
                 THEN saveConfig(read.fs, [read.ret EXCEPT !.defaultProfile = Undefined])
                 ELSE read.fs,
         ret |-> TRUE]

\* deleteProfile without lines 92-96: the default pointer is left as it was.
deleteProfileKeepsDefault(f, profileName) ==
    IF ~profileExists(f, profileName)
    THEN [fs |-> f, ret |-> FALSE]
    ELSE [fs |-> getConfig(rmProfileDir(f, profileName)).fs, ret |-> TRUE]

\* deleteProfile(profileName): [fs, ret]
deleteProfile(f, profileName) ==
    IF ~profileExists(f, profileName)
    THEN [fs |-> f, ret |-> FALSE]
    ELSE LET removed == rmProfileDir(f, profileName)
             got     == getConfig(removed)
         IN  IF got.ret.defaultProfile = profileName
             THEN [fs  |-> saveConfig(got.fs, [got.ret EXCEPT !.defaultProfile = Undefined]),
                   ret |-> TRUE]
             ELSE [fs |-> got.fs, ret |-> TRUE]

setDefaultProfile(f, profileName) ==
    LET got == getConfig(f)
    IN  saveConfig(got.fs, [got.ret EXCEPT !.defaultProfile = profileName])

\* getDefaultProfile(): [fs, ret]
getDefaultProfile(f) ==
    LET got == getConfig(f) IN [fs |-> got.fs, ret |-> got.ret.defaultProfile]

\* The default pointer as config.json holds it (a read that writes nothing).
storedDefault(f) == IF f.config = Null THEN Undefined ELSE f.config.defaultProfile

\* Errors are JavaScript Error objects told apart by their message; kind
\* names the message template and arg the value interpolated into it.
Err(kind, arg) == [kind |-> kind, arg |-> arg]

NoError == Err("none", Undefined)

\* getActiveProfile with the first two operands of || exchanged.
getActiveProfileEnvFirst(f, explicitProfile, env) ==
    LET early   == Or(env, explicitProfile)
        got     == IF Truthy(early) THEN [fs |-> f, ret |-> early]
                   ELSE getDefaultProfile(f)
        profile == got.ret
    IN  IF ~Truthy(profile)
        THEN [fs |-> got.fs, ok |-> FALSE, profile |-> Undefined,
              error |-> Err("NoProfile", Undefined)]
        ELSE IF ~profileExists(got.fs, profile)
        THEN [fs |-> got.fs, ok |-> FALSE, profile |-> Undefined,
              error |-> Err("UnknownProfile", profile)]
        ELSE [fs |-> got.fs, ok |-> TRUE, profile |-> profile, error |-> NoError]

\* getActiveProfile taking the first source that names an existing profile.
getActiveProfileFallsThrough(f, explicitProfile, env) ==
    LET got     == getDefaultProfile(f)
        sources == <<explicitProfile, env, got.ret>>
        usable  == {i \in 1..3 : Truthy(sources[i]) /\ profileExists(got.fs, sources[i])}
        set     == {i \in 1..3 : Truthy(sources[i])}
    IN  IF set = {}
        THEN [fs |-> got.fs, ok |-> FALSE, profile |-> Undefined,
              error |-> Err("NoProfile", Undefined)]
        ELSE IF usable = {}
        THEN [fs |-> got.fs, ok |-> FALSE, profile |-> Undefined,
              error |-> Err("UnknownProfile", sources[CHOOSE i \in set : \A j \in set : i <= j])]
        ELSE [fs |-> got.fs, ok |-> TRUE,
              profile |-> sources[CHOOSE i \in usable : \A j \in usable : i <= j],
              error |-> NoError]

\* getActiveProfile(explicitProfile): [fs, ok, profile, error].
\* env is process.env.GWCLI_PROFILE.  getDefaultProfile() is evaluated only
\* when the two operands before it are falsy.
getActiveProfile(f, explicitProfile, env) ==
    LET early   == Or(explicitProfile, env)
        got     == IF Truthy(early) THEN [fs |-> f, ret |-> early]
                   ELSE getDefaultProfile(f)
        profile == got.ret
    IN  IF ~Truthy(profile)
        THEN [fs |-> got.fs, ok |-> FALSE, profile |-> Undefined,
              error |-> Err("NoProfile", Undefined)]
        ELSE IF ~profileExists(got.fs, profile)
        THEN [fs |-> got.fs, ok |-> FALSE, profile |-> Undefined,
              error |-> Err("UnknownProfile", profile)]
        ELSE [fs |-> got.fs, ok |-> TRUE, profile |-> profile, error |-> NoError]

----------------------------------------------------------------------------
(* src/lib/calendar-client.ts: parseDateTime.  A string is the sequence of
   its characters; an instant is its wall-clock reading [zone, y, m, d, h, mi]
   in the machine's zone ("local") or in UTC ("utc"). *)

Digits == <<"0", "1", "2", "3", "4", "5", "6", "7", "8", "9">>

IsDigit(c) == \E i \in 1..Len(Digits) : Digits[i] = c

DigitValue(c) == (CHOOSE i \in 1..Len(Digits) : Digits[i] = c) - 1

IsSpace(c) == c = " "

\* String.prototype.toLowerCase on the letters the inputs use.
LowerChar(c) ==
    CASE c = "A" -> "a" [] c = "D" -> "d" [] c = "M" -> "m" [] c = "O" -> "o"
      [] c = "P" -> "p" [] c = "R" -> "r" [] c = "T" -> "t" [] c = "W" -> "w"
      [] c = "Y" -> "y" [] OTHER -> c

toLowerCase(str) == [i \in 1..Len(str) |-> LowerChar(str[i])]

\* str.slice(n): the string without its first n characters.
slice(str, n) == IF n >= Len(str) THEN <<>> ELSE SubSeq(str, n + 1, Len(str))

RECURSIVE trimStart(_)
trimStart(str) ==
    IF str # <<>> /\ IsSpace(Head(str)) THEN trimStart(Tail(str)) ELSE str

RECURSIVE trimEnd(_)
trimEnd(str) ==
    IF str # <<>> /\ IsSpace(str[Len(str)])
    THEN trimEnd(SubSeq(str, 1, Len(str) - 1))
    ELSE str

trim(str) == trimEnd(trimStart(str))

startsWith(str, prefix) ==
    Len(str) >= Len(prefix) /\ SubSeq(str, 1, Len(prefix)) = prefix

\* parseInt(str, 10) of a string of digits.
RECURSIVE parseInt(_)
parseInt(str) ==
    IF str = <<>> THEN 0
    ELSE parseInt(SubSeq(str, 1, Len(str) - 1)) * 10 + DigitValue(str[Len(str)])

\* str has digits at the positions i..j.
DigitsAt(str, i, j) == j <= Len(str) /\ \A k \in i..j : IsDigit(str[k])

\* The characters of str at i..i+Len(lit)-1 are those of lit.
LiteralAt(str, i, lit) ==
    i + Len(lit) - 1 <= Len(str) /\ SubSeq(str, i, i + Len(lit) - 1) = lit

\* \d{4}-\d{2}-\d{2} at the start of str.
DateAtStart(str) ==
    /\ DigitsAt(str, 1, 4) /\ LiteralAt(str, 5, <<"-">>)
    /\ DigitsAt(str, 6, 7) /\ LiteralAt(str, 8, <<"-">>)
    /\ DigitsAt(str, 9, 10)

\* /^\d{4}-\d{2}-\d{2}T\d{2}:\d{2}/.test(str)
isoPrefixTest(str) ==
    /\ DateAtStart(str) /\ LiteralAt(str, 11, <<"T">>)
    /\ DigitsAt(str, 12, 13) /\ LiteralAt(str, 14, <<":">>)
    /\ DigitsAt(str, 15, 16)

\* timeStr.match(/^(\d{4}-\d{2}-\d{2})\s+(\d{1,2}):(\d{2})$/): the groups as
\* numbers, hours being what padStart(2, '0') and the Date parser make of it.
dateTimeMatch(str) ==
    LET rest  == slice(str, 10)
        clock == trimStart(rest)
        nd    == IF DigitsAt(clock, 1, 2) THEN 2 ELSE IF DigitsAt(clock, 1, 1) THEN 1 ELSE 0
    IN  IF /\ DateAtStart(str)
           /\ clock # rest
           /\ nd > 0
           /\ LiteralAt(clock, nd + 1, <<":">>)
           /\ DigitsAt(clock, nd + 2, nd + 3)
           /\ Len(clock) = nd + 3
        THEN [ matched |-> TRUE,
               y  |-> parseInt(SubSeq(str, 1, 4)),
               m  |-> parseInt(SubSeq(str, 6, 7)),
               d  |-> parseInt(SubSeq(str, 9, 10)),
               h  |-> parseInt(SubSeq(clock, 1, nd)),
               mi |-> parseInt(SubSeq(clock, nd + 2, nd + 3)) ]
        ELSE [ matched |-> FALSE, y |-> 0, m |-> 0, d |-> 0, h |-> 0, mi |-> 0 ]

\* timeStr.match(/^(\d{1,2})(?::(\d{2}))?\s*(am|pm)?$/i): hoursStr and
\* minutesStr (default '0') through parseInt, meridian lower-cased ("" when
\* the group did not take part).
timeOnlyMatch(str) ==
    LET nd     == IF DigitsAt(str, 1, 2) THEN 2 ELSE IF DigitsAt(str, 1, 1) THEN 1 ELSE 0
        afterH == slice(str, nd)
        hasMin == LiteralAt(afterH, 1, <<":">>) /\ DigitsAt(afterH, 2, 3)
        afterM == IF hasMin THEN slice(afterH, 3) ELSE afterH
        mer    == toLowerCase(trimStart(afterM))
    IN  IF nd > 0 /\ mer \in {<<>>, <<"a", "m">>, <<"p", "m">>}
        THEN [ matched  |-> TRUE,
               hours    |-> parseInt(SubSeq(str, 1, nd)),
               minutes  |-> IF hasMin THEN parseInt(SubSeq(afterH, 2, 3)) ELSE 0,
               meridian |-> mer ]
        ELSE [ matched |-> FALSE, hours |-> 0, minutes |-> 0, meridian |-> <<>> ]

\* Dates.
Instant(zone, y, m, d, h, mi) ==
    [zone |-> zone, y |-> y, m |-> m, d |-> d, h |-> h, mi |-> mi]

\* new Date(...) of a string that denotes no instant.
InvalidDate == Instant("invalid", 0, 0, 0, 0, 0)

IsLeap(y) == (y % 4 = 0 /\ y % 100 # 0) \/ y % 400 = 0

DaysInMonth(y, m) ==
    IF m = 2 THEN (IF IsLeap(y) THEN 29 ELSE 28)
    ELSE IF m \in {4, 6, 9, 11} THEN 30 ELSE 31

\* The day after a date.
nextDay(date) ==
    IF date.d < DaysInMonth(date.y, date.m) THEN [date EXCEPT !.d = @ + 1]
    ELSE IF date.m < 12 THEN [date EXCEPT !.d = 1, !.m = @ + 1]
    ELSE [date EXCEPT !.d = 1, !.m = 1, !.y = @ + 1]

RECURSIVE addDays(_, _)
addDays(date, n) == IF n = 0 THEN date ELSE addDays(nextDay(date), n - 1)

\* date.setHours(hours, minutes, 0, 0): values past the end of the hour or
\* of the day carry over.
setHours(date, hours, minutes) ==
    LET total == hours * 60 + minutes
        moved == addDays(date, total \div 1440)
    IN  [moved EXCEPT !.h = (total % 1440) \div 60, !.mi = total % 60]

\* new Date("YYYY-MM-DDTHH:MM:00") and the like: the fields name an instant.
ValidFields(y, m, d, h, mi) ==
    /\ m \in 1..12
    /\ d \in 1..DaysInMonth(y, m)
    /\ \/ h \in 0..23 /\ mi \in 0..59
       \/ h = 24 /\ mi = 0

\* new Date(str) of the date-time format of ECMAScript, from its fields;
\* 24:00 is the start of the next day.
dateOfFields(zone, y, m, d, h, mi) ==
    IF ~ValidFields(y, m, d, h, mi) THEN InvalidDate
    ELSE IF h = 24 THEN nextDay(Instant(zone, y, m, d, 0, 0))
    ELSE Instant(zone, y, m, d, h, mi)

\* new Date(input) of an input with the ISO prefix: what follows the minutes
\* is nothing (local time) or Z (UTC); anything else makes the date invalid.
isoDate(input) ==
    LET zone == IF Len(input) = 16 THEN "local"
                ELSE IF slice(input, 16) = <<"Z">> THEN "utc" ELSE "invalid"
    IN  IF zone = "invalid" THEN InvalidDate
        ELSE dateOfFields(zone, parseInt(SubSeq(input, 1, 4)),
                          parseInt(SubSeq(input, 6, 7)), parseInt(SubSeq(input, 9, 10)),
                          parseInt(SubSeq(input, 12, 13)), parseInt(SubSeq(input, 15, 16)))

\* A date some engine's own heuristics make of a string that is in no
\* format of ECMAScript.
EngineDate == Instant("engine", 0, 0, 0, 0, 0)

\* new Date(input) in the fallback: the dates an engine may produce.  A
\* date-only form is UTC midnight; a string without any digit is invalid; for
\* the rest ECMAScript leaves the outcome to the engine.
freeFormDates(input) ==
    IF DateAtStart(input) /\ Len(input) = 10
    THEN {dateOfFields("utc", parseInt(SubSeq(input, 1, 4)),
                       parseInt(SubSeq(input, 6, 7)), parseInt(SubSeq(input, 9, 10)), 0, 0)}
    ELSE IF \A i \in 1..Len(input) : ~IsDigit(input[i])
    THEN {InvalidDate}
    ELSE {InvalidDate, EngineDate}

\* date.toISOString(): [ok, value, error]; throws RangeError on an invalid date.
toISOString(date) ==
    IF date = InvalidDate
    THEN [ok |-> FALSE, value |-> InvalidDate, error |-> Err("RangeError", Undefined)]
    ELSE [ok |-> TRUE, value |-> date, error |-> NoError]

Today == <<"t", "o", "d", "a", "y">>

Tomorrow == <<"t", "o", "m", "o", "r", "r", "o", "w">>

\* The adjustment of lines 284-288 without its second line: 12am stays 12.
meridianHoursPmOnly(hours, meridian) ==
    IF meridian = <<"p", "m">> /\ hours < 12 THEN hours + 12 ELSE hours

\* if (meridian) { isPM = ...; if (isPM && hours < 12) hours += 12;
\* if (!isPM && hours === 12) hours = 0; }: the hours handed to setHours.
meridianHours(hours, meridian) ==
    LET isPM == meridian = <<"p", "m">>
    IN  IF meridian = <<>> THEN hours
        ELSE IF isPM /\ hours < 12 THEN hours + 12
        ELSE IF ~isPM /\ hours = 12 THEN 0
        ELSE hours

\* parseDateTime(input) run on the local date today, the fallback's
\* new Date(input) giving freeForm.
parseDateTime(input, today, freeForm) ==
    IF isoPrefixTest(input) THEN toISOString(isoDate(input))
    ELSE
    LET trimmed  == trim(input)
        baseDate == IF startsWith(toLowerCase(trimmed), Today) THEN today
                    ELSE IF startsWith(toLowerCase(trimmed), Tomorrow) THEN nextDay(today)
                    ELSE today
        timeStr  == IF startsWith(toLowerCase(trimmed), Today)
                    THEN trim(slice(trimmed, 5))
                    ELSE IF startsWith(toLowerCase(trimmed), Tomorrow)
                    THEN trim(slice(trimmed, 8))
                    ELSE trimmed
        dt       == dateTimeMatch(timeStr)
        tm       == timeOnlyMatch(timeStr)
        hours    == meridianHours(tm.hours, tm.meridian)
    IN  IF dt.matched
        THEN toISOString(dateOfFields("local", dt.y, dt.m, dt.d, dt.h, dt.mi))
        ELSE IF tm.matched
        THEN toISOString(setHours(baseDate, hours, tm.minutes))
        ELSE IF freeForm = InvalidDate
        THEN [ok |-> FALSE, value |-> InvalidDate, error |-> Err("Unparseable", input)]
        ELSE toISOString(freeForm)

----------------------------------------------------------------------------
(* State *)

VARIABLES
    fs,        \* the files under ~/.config/gwcli, shared by all invocations
    now,       \* Date.now()
    call,      \* the last call made on the profile store's interface, with its result
    pc,        \* per invocation: the await it is suspended at
    cmd,       \* per invocation: the command line and environment
    err,       \* per invocation: the error its handler caught
    flow,      \* per invocation: initiateOAuthFlow's locals, listener and promise
    session,   \* per invocation: getAuthenticatedClient's locals
    effects,   \* per invocation: what it has done to the outside world so far
    foreign    \* the local ports other programs of the machine are listening on

vars == <<fs, now, call, pc, cmd, err, flow, session, effects, foreign>>

\* Two CLI invocations may run at the same time.
Procs == {"p1", "p2"}

----------------------------------------------------------------------------
(* The profile store's interface, called directly (lib/config.ts exports) *)

\* A credentials record as initiateOAuthFlow builds it.
Credentials(clientId, clientSecret, tokens) ==
    [clientId |-> clientId, clientSecret |-> clientSecret, tokens |-> tokens]

Tokens(access, refresh, scope, type, expiry) ==
    [ access_token  |-> access,
      refresh_token |-> refresh,
      scope         |-> scope,
      token_type    |-> type,
      expiry_date   |-> expiry ]

\* Records handed to saveProfileCredentials in the store-level specification.
SampleCredentials ==
    { Credentials("id1", "secret1", Tokens("at1", "rt1", "sc1", "Bearer", 2)),
      Credentials("id2", "secret2", Tokens("at2", Undefined, "sc2", "Bearer", 0)) }

\* op and its arguments name, explicit, env; ok, value, error: what it
\* returned or threw.  For deleteProfile, value is the default pointer the
\* caller read before the call; for saveProfileCredentials, the record saved.
Call(op, name, explicit, env, ok, value, error) ==
    [op |-> op, name |-> name, explicit |-> explicit, env |-> env,
     ok |-> ok, value |-> value, error |-> error]

NoCall == Call("none", Undefined, Undefined, Undefined, TRUE, Undefined, NoError)

ApiSaveProfileCredentials(n, c) ==
    /\ fs' = saveProfileCredentials(fs, n, c)
    /\ call' = Call("saveProfileCredentials", n, Undefined, Undefined, TRUE, c, NoError)
    /\ UNCHANGED <<now, pc, cmd, err, flow, session, effects, foreign>>

ApiSaveProfileConfig(n, k) ==
    /\ fs' = saveProfileConfig(fs, n, k)
    /\ call' = Call("saveProfileConfig", n, Undefined, Undefined, TRUE, Undefined, NoError)
    /\ UNCHANGED <<now, pc, cmd, err, flow, session, effects, foreign>>

ApiDeleteProfile(n) ==
    LET r == deleteProfile(fs, n)
    IN  /\ fs' = r.fs
        /\ call' = Call("deleteProfile", n, Undefined, Undefined, r.ret, storedDefault(fs), NoError)
        /\ UNCHANGED <<now, pc, cmd, err, flow, session, effects, foreign>>

ApiSetDefaultProfile(n) ==
    /\ fs' = setDefaultProfile(fs, n)
    /\ call' = Call("setDefaultProfile", n, Undefined, Undefined, TRUE, Undefined, NoError)
    /\ UNCHANGED <<now, pc, cmd, err, flow, session, effects, foreign>>

ApiGetActiveProfile(explicit, env) ==
    LET r == getActiveProfile(fs, explicit, env)
    IN  /\ fs' = r.fs
        /\ call' = Call("getActiveProfile", Undefined, explicit, env, r.ok, r.profile, r.error)
        /\ UNCHANGED <<now, pc, cmd, err, flow, session, effects, foreign>>

----------------------------------------------------------------------------
(* src/index.ts and the command handlers: which value reaches getActiveProfile *)

CommandGroups == {"gmail", "calendar", "drive"}

\* commander stores the value of an option on the command that declares it:
\* --profile is declared on the program (index.ts), so program.opts() and
\* optsWithGlobals() hold it whether it is typed before or after the
\* subcommand.
programOpts(flag) == [profile |-> flag]

\* The options object handed to a subcommand's action holds the options
\* that subcommand declares; none of them declares --profile.
subcommandOpts(flag) == [profile |-> Undefined]

\* gmail: getActiveProfile(command.parent?.optsWithGlobals()?.profile)
gmailExplicitProfile(flag) == programOpts(flag).profile

\* calendar: getActiveProfile(options.profile)
calendarExplicitProfile(flag) == subcommandOpts(flag).profile

\* drive: getActiveProfile(globalOptions.profile || options.profile)
driveExplicitProfile(flag) == Or(programOpts(flag).profile, subcommandOpts(flag).profile)

explicitProfile(group, flag) ==
    CASE group = "gmail"    -> gmailExplicitProfile(flag)
      [] group = "calendar" -> calendarExplicitProfile(flag)
      [] group = "drive"    -> driveExplicitProfile(flag)

----------------------------------------------------------------------------
(* lib/auth.ts: pure parts *)

\* parseOAuthClientFile(filePath), by what the file holds.
ClientFiles == {"missing", "noshape", "installed", "web"}

parseOAuthClientFile(file) ==
    CASE file = "missing"   -> [ok |-> FALSE, error |-> Err("ClientFileNotFound", file),
                                clientId |-> Undefined, clientSecret |-> Undefined]
      [] file = "noshape"   -> [ok |-> FALSE, error |-> Err("InvalidClientFile", Undefined),
                                clientId |-> Undefined, clientSecret |-> Undefined]
      [] file = "installed" -> [ok |-> TRUE, error |-> NoError,
                                clientId |-> "id1", clientSecret |-> "secret1"]
      [] file = "web"       -> [ok |-> TRUE, error |-> NoError,
                                clientId |-> "id2", clientSecret |-> "secret2"]

\* The promise createCallbackServer returns.
Promise(state, code, error) == [state |-> state, code |-> code, error |-> error]

NoPromise == Promise("none", Undefined, NoError)

Pending == Promise("pending", Undefined, NoError)

\* resolve(code) settling anew a promise that is settled already.
resolveAgain(promise, code) == Promise("resolved", code, NoError)

\* resolve(code) / reject(error): only the first settlement of a promise counts.
resolve(promise, code) ==
    IF promise.state = "pending" THEN Promise("resolved", code, NoError) ELSE promise

reject(promise, error) ==
    IF promise.state = "pending" THEN Promise("rejected", Undefined, error) ELSE promise

\* The requests that reach the callback listener: url is "none" (req.url
\* missing), "bad" (new URL throws) or "ok", with the two query parameters.
Codes == {"x1", "x2"}

Requests ==
    {[url |-> "none", code |-> Undefined, error |-> Undefined],
     [url |-> "bad", code |-> Undefined, error |-> Undefined]}
    \cup {[url |-> "ok", code |-> c, error |-> e] :
             c \in Codes \cup {Undefined},
             e \in {Undefined, "access_denied", "server_error"}}

\* The handler closing the listener on a request that carries neither
\* parameter.
handleRequestNotFoundCloses(fl, req) ==
    CASE req.url = "none" ->
            [fl EXCEPT !.request = req, !.status = 400]
      [] req.url = "bad" ->
            [fl EXCEPT !.request = req, !.status = 500, !.listener = "none",
                       !.promise = reject(@, Err("Handler", Undefined))]
      [] req.url = "ok" /\ Truthy(req.error) ->
            [fl EXCEPT !.request = req, !.status = 200, !.listener = "none",
                       !.promise = reject(@, Err("OAuth", req.error))]
      [] req.url = "ok" /\ ~Truthy(req.error) /\ Truthy(req.code) ->
            [fl EXCEPT !.request = req, !.status = 200, !.listener = "none",
                       !.promise = resolve(@, req.code)]
      [] OTHER ->
            [fl EXCEPT !.request = req, !.status = 404, !.listener = "none"]

\* The handler without the server.close() of line 66.
handleRequestErrorKeepsListening(fl, req) ==
    CASE req.url = "none" ->
            [fl EXCEPT !.request = req, !.status = 400]
      [] req.url = "bad" ->
            [fl EXCEPT !.request = req, !.status = 500, !.listener = "none",
                       !.promise = reject(@, Err("Handler", Undefined))]
      [] req.url = "ok" /\ Truthy(req.error) ->
            [fl EXCEPT !.request = req, !.status = 200,
                       !.promise = reject(@, Err("OAuth", req.error))]
      [] req.url = "ok" /\ ~Truthy(req.error) /\ Truthy(req.code) ->
            [fl EXCEPT !.request = req, !.status = 200, !.listener = "none",
                       !.promise = resolve(@, req.code)]
      [] OTHER ->
            [fl EXCEPT !.request = req, !.status = 404]

NoRequest == [url |-> "", code |-> Undefined, error |-> Undefined]

\* createCallbackServer's request handler, on the flow record fl.
handleRequest(fl, req) ==
    CASE req.url = "none" ->
            [fl EXCEPT !.request = req, !.status = 400]
      [] req.url = "bad" ->
            [fl EXCEPT !.request = req, !.status = 500, !.listener = "none",
                       !.promise = reject(@, Err("Handler", Undefined))]
      [] req.url = "ok" /\ Truthy(req.error) ->
            [fl EXCEPT !.request = req, !.status = 200, !.listener = "none",
                       !.promise = reject(@, Err("OAuth", req.error))]
      [] req.url = "ok" /\ ~Truthy(req.error) /\ Truthy(req.code) ->
            [fl EXCEPT !.request = req, !.status = 200, !.listener = "none",
                       !.promise = resolve(@, req.code)]
      [] OTHER ->
            [fl EXCEPT !.request = req, !.status = 404]

\* server.on('error', reject): the listener is left as it is.
handleServerError(fl) == [fl EXCEPT !.promise = reject(@, Err("Server", Undefined))]

\* What the provider's token endpoint answers for an authorization code at
\* time t: tokens of that grant, the access token expiring one tick later.
exchangedTokens(code, t) ==
    IF code = "x1"
    THEN Tokens("at-x1", "rt-x1", "sc1", "Bearer", t + 1)
    ELSE Tokens("at-x2", "rt-x2", "sc1", "Bearer", t + 1)

\* tokenData without its refresh_token line.
tokenDataNoRefresh(tokens) ==
    [ access_token |-> tokens.access_token, refresh_token |-> Undefined,
      scope |-> tokens.scope, token_type |-> tokens.token_type,
      expiry_date |-> tokens.expiry_date ]

\* tokenData: the five fields initiateOAuthFlow copies out of the answer.
tokenData(tokens) ==
    Tokens(tokens.access_token, tokens.refresh_token, tokens.scope,
           tokens.token_type, tokens.expiry_date)

\* The payloads of a 'tokens' event at time t: a new access token, and each
\* other field present or omitted.
TokenPayloads(t) ==
    { Tokens("at-new", r, s, ty, e) :
        r \in {Undefined, "rt-new"}, s \in {Undefined, "sc2"},
        ty \in {Undefined, "Bearer"}, e \in {0, t + 1} }

\* The observer without the fallback of line 209: the refresh token is the
\* payload's own.
updatedCredentialsNoFallback(credentials, tokens) ==
    [credentials EXCEPT !.tokens =
        Tokens(tokens.access_token,
               tokens.refresh_token,
               Or(tokens.scope, credentials.tokens.scope),
               Or(tokens.token_type, credentials.tokens.token_type),
               OrNum(tokens.expiry_date, credentials.tokens.expiry_date))]

\* The observer registered with oauth2Client.on('tokens', ...): the record
\* it hands to saveProfileCredentials.
updatedCredentials(credentials, tokens) ==
    [credentials EXCEPT !.tokens =
        Tokens(tokens.access_token,
               Or(tokens.refresh_token, credentials.tokens.refresh_token),
               Or(tokens.scope, credentials.tokens.scope),
               Or(tokens.token_type, credentials.tokens.token_type),
               OrNum(tokens.expiry_date, credentials.tokens.expiry_date))]

\* The check of line 220 never finding the token expired.
isExpiredNever(credentials, t) == FALSE

\* The check of line 220 without its first operand: an unset expiry_date
\* (0) counts as earlier than now.
isExpiredUnsetToo(credentials, t) == credentials.tokens.expiry_date < t

\* credentials.tokens.expiry_date && credentials.tokens.expiry_date < now
isExpired(credentials, t) ==
    TruthyNum(credentials.tokens.expiry_date) /\ credentials.tokens.expiry_date < t

\* getAuthenticatedClient without the check of lines 180-185: a profile
\* without credentials gets a client with nothing set, and a refresh is tried.
getAuthenticatedClientNoCheck(f, profileName, t) ==
    LET credentials == getProfileCredentials(f, profileName)
    IN  IF credentials = Null
        THEN [ok |-> TRUE, error |-> NoError,
              credentials |-> Credentials(Undefined, Undefined,
                                Tokens(Undefined, Undefined, Undefined, Undefined, 0)),
              expired |-> TRUE]
        ELSE [ok |-> TRUE, error |-> NoError,
              credentials |-> credentials, expired |-> isExpired(credentials, t)]

\* getAuthenticatedClient(profileName) at time t, up to its await:
\* [ok, error, credentials, expired]; expired says that getAccessToken()
\* is called before the handle is returned.
getAuthenticatedClient(f, profileName, t) ==
    LET credentials == getProfileCredentials(f, profileName)
    IN  IF credentials = Null
        THEN [ok |-> FALSE, error |-> Err("MissingCredentials", profileName),
              credentials |-> Null, expired |-> FALSE]
        ELSE [ok |-> TRUE, error |-> NoError,
              credentials |-> credentials, expired |-> isExpired(credentials, t)]

----------------------------------------------------------------------------
(* Per-invocation state *)

\* kind: the command; name: its <name> argument; client: what the --client
\* file holds; flag: the value of the global --profile option.
Cmd(kind, name, client, flag) ==
    [kind |-> kind, name |-> name, client |-> client, flag |-> flag]

NoCmd == Cmd("none", Undefined, Undefined, Undefined)

\* port: the port getAvailablePort returned (0: none yet); listener: which
\* server of this invocation is bound to it ("none", "temp", "callback");
\* request, status: the last request the callback handler served and the
\* status code it answered.
NoFlow ==
    [ port |-> 0, listener |-> "none", promise |-> NoPromise,
      clientId |-> Undefined, clientSecret |-> Undefined,
      code |-> Undefined, request |-> NoRequest, status |-> 0 ]

NoTokens == Tokens(Undefined, Undefined, Undefined, Undefined, 0)

\* explicit: the argument handed to getActiveProfile; credentials: the
\* record the observer closes over; expired: the outcome of the check of
\* line 220; events: 'tokens' events seen so far; tokens: the payload of the
\* last one.
NoSession ==
    [ explicit |-> Undefined, profileName |-> Undefined,
      credentials |-> Null, expired |-> FALSE, events |-> 0, tokens |-> NoTokens ]

\* binds: listen() calls that bound a port; launches: open() calls;
\* exchanges: getToken() calls; refreshes: getAccessToken() refresh requests.
NoEffects == [binds |-> 0, launches |-> 0, exchanges |-> 0, refreshes |-> 0]

\* The ports p cannot bind: some other process is listening on them.
PortsInUse(p) ==
    foreign \cup {flow[q].port : q \in {r \in Procs \ {p} : flow[r].listener # "none"}}

Fail(p, error) ==
    /\ pc' = [pc EXCEPT ![p] = "Failed"]
    /\ err' = [err EXCEPT ![p] = error]

----------------------------------------------------------------------------
(* profiles add <name> --client <path>  (commands/profiles.ts, lib/auth.ts) *)

\* The handler up to its first await: the checks, parseOAuthClientFile, and
\* initiateOAuthFlow up to getAvailablePort's server.listen(0).
AddStart(p, name, file) ==
    LET parsed == parseOAuthClientFile(file)
        free   == Ports \ PortsInUse(p)
    IN  /\ pc[p] = "Idle"
        /\ cmd' = [cmd EXCEPT ![p] = Cmd("add", name, file, Undefined)]
        /\ UNCHANGED <<fs, now, call, session, foreign>>
        /\ IF ~Truthy(name)
           THEN Fail(p, Err("EmptyName", Undefined)) /\ UNCHANGED <<flow, effects>>
           ELSE IF profileExists(fs, name)
           THEN Fail(p, Err("DuplicateProfile", name)) /\ UNCHANGED <<flow, effects>>
           ELSE IF ~parsed.ok
           THEN Fail(p, parsed.error) /\ UNCHANGED <<flow, effects>>
           ELSE /\ pc' = [pc EXCEPT ![p] = "AwaitPort"]
                /\ UNCHANGED err
                /\ IF free = {}
                   THEN /\ flow' = [flow EXCEPT ![p] =
                               [@ EXCEPT !.clientId = parsed.clientId,
                                         !.clientSecret = parsed.clientSecret]]
                        /\ UNCHANGED effects
                   ELSE \E port \in free :
                        /\ flow' = [flow EXCEPT ![p] =
                               [@ EXCEPT !.clientId = parsed.clientId,
                                         !.clientSecret = parsed.clientSecret,
                                         !.port = port, !.listener = "temp"]]
                        /\ effects' = [effects EXCEPT ![p].binds = @ + 1]

\* getAvailablePort's listen callback: server.close(() => resolve(port));
\* then generateAuthUrl, the console output and open(authUrl).
PortAssigned(p) ==
    /\ pc[p] = "AwaitPort"
    /\ flow[p].listener = "temp"
    /\ flow' = [flow EXCEPT ![p].listener = "none"]
    /\ effects' = [effects EXCEPT ![p].launches = @ + 1]
    /\ pc' = [pc EXCEPT ![p] = "AwaitOpen"]
    /\ UNCHANGED <<fs, now, call, cmd, err, session, foreign>>

\* getAvailablePort's server.on('error', reject): no port could be bound.
PortFailed(p) ==
    /\ pc[p] = "AwaitPort"
    /\ flow[p].listener = "none"
    /\ Fail(p, Err("PortBind", Undefined))
    /\ UNCHANGED <<fs, now, call, cmd, flow, session, effects, foreign>>

\* open() resolved: createCallbackServer(port) creates the promise and calls
\* server.listen(port); a port taken meanwhile makes the server emit 'error'.
BrowserOpened(p) ==
    /\ pc[p] = "AwaitOpen"
    /\ pc' = [pc EXCEPT ![p] = "AwaitCallback"]
    /\ IF flow[p].port \in PortsInUse(p)
       THEN /\ flow' = [flow EXCEPT ![p] = handleServerError([@ EXCEPT !.promise = Pending])]
            /\ UNCHANGED effects
       ELSE /\ flow' = [flow EXCEPT ![p] = [@ EXCEPT !.promise = Pending, !.listener = "callback"]]
            /\ effects' = [effects EXCEPT ![p].binds = @ + 1]
    /\ UNCHANGED <<fs, now, call, cmd, err, session, foreign>>

\* open() rejected (no browser could be started).
OpenFailed(p) ==
    /\ pc[p] = "AwaitOpen"
    /\ Fail(p, Err("Open", Undefined))
    /\ UNCHANGED <<fs, now, call, cmd, flow, session, effects, foreign>>

\* A request reaches the bound callback listener.
Request(p, req) ==
    /\ flow[p].listener = "callback"
    /\ flow' = [flow EXCEPT ![p] = handleRequest(@, req)]
    /\ UNCHANGED <<fs, now, call, pc, cmd, err, session, effects, foreign>>

\* A request arrives after server.close() on a connection the listener had
\* accepted before (close() lets accepted connections live on): the handler
\* runs once more, on a promise that is settled.
LateRequest(p, req) ==
    /\ pc[p] \in {"AwaitCallback", "AwaitToken"}
    /\ flow[p].listener = "none"
    /\ flow[p].status # 0
    /\ flow' = [flow EXCEPT ![p] = handleRequest(@, req)]
    /\ UNCHANGED <<fs, now, call, pc, cmd, err, session, effects, foreign>>

\* The bound callback listener emits 'error' (an accept failure).
ServerError(p) ==
    /\ flow[p].listener = "callback"
    /\ flow' = [flow EXCEPT ![p] = handleServerError(@)]
    /\ UNCHANGED <<fs, now, call, pc, cmd, err, session, effects, foreign>>

\* The flow launching the browser again after a rejected callback, instead
\* of throwing to the add handler.
CallbackSettledRetries(p) ==
    /\ pc[p] = "AwaitCallback"
    /\ flow[p].promise.state \in {"resolved", "rejected"}
    /\ IF flow[p].promise.state = "resolved"
       THEN /\ pc' = [pc EXCEPT ![p] = "AwaitToken"]
            /\ flow' = [flow EXCEPT ![p].code = flow[p].promise.code]
            /\ effects' = [effects EXCEPT ![p].exchanges = @ + 1]
       ELSE /\ pc' = [pc EXCEPT ![p] = "AwaitOpen"]
            /\ flow' = [flow EXCEPT ![p].listener = "none"]
            /\ effects' = [effects EXCEPT ![p].launches = @ + 1]
    /\ UNCHANGED <<fs, now, call, cmd, err, session, foreign>>

\* await createCallbackServer(port) resumes: with the code, and calls
\* oauth2Client.getToken(code); or with the rejection, which the add
\* handler's catch receives.
CallbackSettled(p) ==
    /\ pc[p] = "AwaitCallback"
    /\ flow[p].promise.state \in {"resolved", "rejected"}
    /\ IF flow[p].promise.state = "resolved"
       THEN /\ pc' = [pc EXCEPT ![p] = "AwaitToken"]
            /\ flow' = [flow EXCEPT ![p].code = flow[p].promise.code]
            /\ effects' = [effects EXCEPT ![p].exchanges = @ + 1]
            /\ UNCHANGED err
       ELSE /\ Fail(p, flow[p].promise.error)
            /\ UNCHANGED <<flow, effects>>
    /\ UNCHANGED <<fs, now, call, cmd, session, foreign>>

\* getToken resolved: tokenData and credentials are built and
\* saveProfileCredentials(profileName, credentials) is called.
ExchangeOk(p) ==
    /\ pc[p] = "AwaitToken"
    /\ fs' = saveProfileCredentials(fs, cmd[p].name,
                Credentials(flow[p].clientId, flow[p].clientSecret,
                            tokenData(exchangedTokens(flow[p].code, now))))
    /\ pc' = [pc EXCEPT ![p] = "Persisted"]
    /\ UNCHANGED <<now, call, cmd, err, flow, session, effects, foreign>>

\* The flow creating the profile's directory before the exchange is known
\* to have succeeded.
ExchangeFailedAfterSave(p) ==
    /\ pc[p] = "AwaitToken"
    /\ Fail(p, Err("TokenExchange", Undefined))
    /\ fs' = saveProfileConfig(fs, cmd[p].name, [createdAt |-> now])
    /\ UNCHANGED <<now, call, cmd, flow, session, effects, foreign>>

\* getToken rejected.
ExchangeFailed(p) ==
    /\ pc[p] = "AwaitToken"
    /\ Fail(p, Err("TokenExchange", Undefined))
    /\ UNCHANGED <<fs, now, call, cmd, flow, session, effects, foreign>>

\* The add handler making every profile it adds the default.
AddFinishAlwaysDefault(p) ==
    /\ pc[p] = "Persisted"
    /\ fs' = setDefaultProfile(saveProfileConfig(fs, cmd[p].name, [createdAt |-> now]),
                               cmd[p].name)
    /\ pc' = [pc EXCEPT ![p] = "Done"]
    /\ UNCHANGED <<now, call, cmd, err, flow, session, effects, foreign>>

\* await initiateOAuthFlow(...) resumes in the add handler: saveProfileConfig,
\* then setDefaultProfile if listProfiles() has exactly one entry.
AddFinish(p) ==
    LET saved == saveProfileConfig(fs, cmd[p].name, [createdAt |-> now])
    IN  /\ pc[p] = "Persisted"
        /\ fs' = IF Cardinality(listProfiles(saved)) = 1
                 THEN setDefaultProfile(saved, cmd[p].name)
                 ELSE saved
        /\ pc' = [pc EXCEPT ![p] = "Done"]
        /\ UNCHANGED <<now, call, cmd, err, flow, session, effects, foreign>>

----------------------------------------------------------------------------
(* profiles remove <name>, profiles set-default <name>  (commands/profiles.ts) *)

\* The remove handler has no await: it runs as one step.
Remove(p, name) ==
    /\ pc[p] = "Idle"
    /\ cmd' = [cmd EXCEPT ![p] = Cmd("remove", name, Undefined, Undefined)]
    /\ IF ~profileExists(fs, name)
       THEN /\ Fail(p, Err("NoSuchProfile", name))
            /\ UNCHANGED fs
       ELSE LET read    == getDefaultProfile(fs)
                deleted == deleteProfile(read.fs, name)
            IN  /\ fs' = deleted.fs
                /\ IF deleted.ret
                   THEN pc' = [pc EXCEPT ![p] = "Done"] /\ UNCHANGED err
                   ELSE Fail(p, Err("DeleteFailed", name))
    /\ UNCHANGED <<now, call, flow, session, effects, foreign>>

SetDefault(p, name) ==
    /\ pc[p] = "Idle"
    /\ cmd' = [cmd EXCEPT ![p] = Cmd("set-default", name, Undefined, Undefined)]
    /\ IF ~profileExists(fs, name)
       THEN /\ Fail(p, Err("NoSuchProfile", name))
            /\ UNCHANGED fs
       ELSE /\ fs' = setDefaultProfile(fs, name)
            /\ pc' = [pc EXCEPT ![p] = "Done"]
            /\ UNCHANGED err
    /\ UNCHANGED <<now, call, flow, session, effects, foreign>>

----------------------------------------------------------------------------
(* gmail / calendar / drive commands: getActiveProfile, getAuthenticatedClient *)

\* A command of a group, run with --profile flag (Undefined: not given) and
\* GWCLI_PROFILE env: the handler up to its first await, which is
\* getAuthenticatedClient's getAccessToken() when the stored token has
\* expired, and the API call of the command otherwise.
SessionStart(p, group, flag, env) ==
    LET explicit == explicitProfile(group, flag)
        active   == getActiveProfile(fs, explicit, env)
        client   == getAuthenticatedClient(active.fs, active.profile, now)
    IN  /\ pc[p] = "Idle"
        /\ cmd' = [cmd EXCEPT ![p] = Cmd(group, Undefined, Undefined, flag)]
        /\ fs' = active.fs
        /\ UNCHANGED <<now, call, flow, foreign>>
        /\ IF ~active.ok
           THEN /\ Fail(p, active.error)
                /\ session' = [session EXCEPT ![p].explicit = explicit]
                /\ UNCHANGED effects
           ELSE IF ~client.ok
           THEN /\ Fail(p, client.error)
                /\ session' = [session EXCEPT ![p].explicit = explicit,
                                              ![p].profileName = active.profile]
                /\ UNCHANGED effects
           ELSE /\ session' = [session EXCEPT ![p].explicit = explicit,
                                              ![p].profileName = active.profile,
                                              ![p].credentials = client.credentials,
                                              ![p].expired = client.expired]
                /\ UNCHANGED err
                /\ IF client.expired
                   THEN /\ pc' = [pc EXCEPT ![p] = "AwaitRefresh"]
                        /\ effects' = [effects EXCEPT ![p].refreshes = @ + 1]
                   ELSE /\ pc' = [pc EXCEPT ![p] = "Ready"]
                        /\ UNCHANGED effects

\* The provider answers the refresh request: the client emits 'tokens', the
\* observer saves the merged record, getAccessToken() resolves and
\* getAuthenticatedClient returns the handle.  A refresh request needs the
\* client to hold a refresh token.
RefreshOk(p, tokens) ==
    /\ pc[p] = "AwaitRefresh"
    /\ Truthy(session[p].credentials.tokens.refresh_token)
    /\ fs' = saveProfileCredentials(fs, session[p].profileName,
                updatedCredentials(session[p].credentials, tokens))
    /\ session' = [session EXCEPT ![p].events = @ + 1, ![p].tokens = tokens]
    /\ pc' = [pc EXCEPT ![p] = "Ready"]
    /\ UNCHANGED <<now, call, cmd, err, flow, effects, foreign>>

\* getAccessToken() rejected.
RefreshFailed(p) ==
    /\ pc[p] = "AwaitRefresh"
    /\ Fail(p, Err("TokenRefresh", session[p].profileName))
    /\ UNCHANGED <<fs, now, call, cmd, flow, session, effects, foreign>>

\* The observer reading the stored record again before it merges, instead of
\* merging into the copy read when the client was built.
TokenEventRereads(p, tokens) ==
    /\ pc[p] = "Ready"
    /\ session[p].events < MaxEvents
    /\ Truthy(session[p].credentials.tokens.refresh_token)
    /\ getProfileCredentials(fs, session[p].profileName) # Null
    /\ fs' = saveProfileCredentials(fs, session[p].profileName,
                updatedCredentials(getProfileCredentials(fs, session[p].profileName), tokens))
    /\ session' = [session EXCEPT ![p].events = @ + 1, ![p].tokens = tokens]
    /\ effects' = [effects EXCEPT ![p].refreshes = @ + 1]
    /\ UNCHANGED <<now, call, pc, cmd, err, flow, foreign>>

\* An API call of the command made the client refresh on demand: 'tokens'
\* is emitted and the observer runs.
TokenEvent(p, tokens) ==
    /\ pc[p] = "Ready"
    /\ session[p].events < MaxEvents
    /\ Truthy(session[p].credentials.tokens.refresh_token)
    /\ fs' = saveProfileCredentials(fs, session[p].profileName,
                updatedCredentials(session[p].credentials, tokens))
    /\ session' = [session EXCEPT ![p].events = @ + 1, ![p].tokens = tokens]
    /\ effects' = [effects EXCEPT ![p].refreshes = @ + 1]
    /\ UNCHANGED <<now, call, pc, cmd, err, flow, foreign>>

\* The command's API calls are over.
Finish(p) ==
    /\ pc[p] = "Ready"
    /\ pc' = [pc EXCEPT ![p] = "Done"]
    /\ UNCHANGED <<fs, now, call, cmd, err, flow, session, effects, foreign>>

----------------------------------------------------------------------------
(* Process exit and the clock *)

\* The handler returned, or its catch called process.exit(1): the process
\* is gone, and with it any listener it still held.
Exit(p) ==
    /\ pc[p] \in {"Done", "Failed"}
    /\ pc' = [pc EXCEPT ![p] = "Idle"]
    /\ cmd' = [cmd EXCEPT ![p] = NoCmd]
    /\ err' = [err EXCEPT ![p] = NoError]
    /\ flow' = [flow EXCEPT ![p] = NoFlow]
    /\ session' = [session EXCEPT ![p] = NoSession]
    /\ effects' = [effects EXCEPT ![p] = NoEffects]
    /\ UNCHANGED <<fs, now, call, foreign>>

Tick ==
    /\ now < MaxClock
    /\ now' = now + 1
    /\ UNCHANGED <<fs, call, pc, cmd, err, flow, session, effects, foreign>>

\* Another program of the machine binds or releases a local port.
ForeignBind(port) ==
    /\ port \notin foreign
    /\ \A p \in Procs : flow[p].listener = "none" \/ flow[p].port # port
    /\ foreign' = foreign \cup {port}
    /\ UNCHANGED <<fs, now, call, pc, cmd, err, flow, session, effects>>

ForeignRelease(port) ==
    /\ port \in foreign
    /\ foreign' = foreign \ {port}
    /\ UNCHANGED <<fs, now, call, pc, cmd, err, flow, session, effects>>

----------------------------------------------------------------------------
(* Specifications *)

Init ==
    /\ fs = EmptyFs
    /\ now = 1
    /\ call = NoCall
    /\ pc = [p \in Procs |-> "Idle"]
    /\ cmd = [p \in Procs |-> NoCmd]
    /\ err = [p \in Procs |-> NoError]
    /\ flow = [p \in Procs |-> NoFlow]
    /\ session = [p \in Procs |-> NoSession]
    /\ effects = [p \in Procs |-> NoEffects]
    /\ foreign = {}

\* The whole system: any number of the invocations at once, any input.
Next ==
    \/ \E p \in Procs, n \in ProfileNames \cup {""}, file \in ClientFiles : AddStart(p, n, file)
    \/ \E p \in Procs : PortAssigned(p)
    \/ \E p \in Procs : PortFailed(p)
    \/ \E p \in Procs : BrowserOpened(p)
    \/ \E p \in Procs : OpenFailed(p)
    \/ \E p \in Procs, req \in Requests : Request(p, req)
    \/ \E p \in Procs : ServerError(p)
    \/ \E p \in Procs : CallbackSettled(p)
    \/ \E p \in Procs : ExchangeOk(p)
    \/ \E p \in Procs : ExchangeFailed(p)
    \/ \E p \in Procs : AddFinish(p)
    \/ \E p \in Procs, n \in ProfileNames : Remove(p, n)
    \/ \E p \in Procs, n \in ProfileNames : SetDefault(p, n)
    \/ \E p \in Procs, g \in CommandGroups, flag \in NameInputs, env \in NameInputs :
          SessionStart(p, g, flag, env)
    \/ \E p \in Procs, tokens \in TokenPayloads(now) : RefreshOk(p, tokens)
    \/ \E p \in Procs : RefreshFailed(p)
    \/ \E p \in Procs, tokens \in TokenPayloads(now) : TokenEvent(p, tokens)
    \/ \E p \in Procs : Finish(p)
    \/ \E p \in Procs : Exit(p)
    \/ \E port \in Ports : ForeignBind(port)
    \/ \E port \in Ports : ForeignRelease(port)
    \/ Tick

Spec == Init /\ [][Next]_vars

\* The store's interface called in any order by one caller.
StoreNext ==
    \/ \E n \in ProfileNames, c \in SampleCredentials : ApiSaveProfileCredentials(n, c)
    \/ \E n \in ProfileNames : ApiSaveProfileConfig(n, [createdAt |-> now])
    \/ \E n \in ProfileNames : ApiDeleteProfile(n)
    \/ \E n \in ProfileNames : ApiSetDefaultProfile(n)
    \/ \E explicit \in NameInputs, env \in NameInputs : ApiGetActiveProfile(explicit, env)

StoreSpec == Init /\ [][StoreNext]_vars

\* The names typed on the command lines of the CLI-level specifications.
CliNames == {AllNames[i] : i \in 1..NumCliNames} \cap ProfileNames

CliNameInputs == CliNames \cup {Undefined, ""}

\* The profiles commands, one invocation after the other.
FlowNext ==
    \/ \E n \in CliNames \cup {""}, file \in ClientFiles : AddStart("p1", n, file)
    \/ PortAssigned("p1")
    \/ PortFailed("p1")
    \/ BrowserOpened("p1")
    \/ OpenFailed("p1")
    \/ \E req \in Requests : Request("p1", req)
    \/ \E req \in Requests : LateRequest("p1", req)
    \/ ServerError("p1")
    \/ CallbackSettled("p1")
    \/ ExchangeOk("p1")
    \/ ExchangeFailed("p1")
    \/ AddFinish("p1")
    \/ \E n \in CliNames : Remove("p1", n)
    \/ \E n \in CliNames : SetDefault("p1", n)
    \/ Exit("p1")
    \/ \E port \in Ports : ForeignBind(port)
    \/ \E port \in Ports : ForeignRelease(port)

FlowSpec == Init /\ [][FlowNext]_vars

\* What earlier profiles commands left behind: the profiles in S, each as
\* profiles add wrote it at time 1, and the default pointer d.
\* The store after completed adds of the profiles S at time 1, with default
\* pointer d; e is the expiry_date the provider's answer carried (0: none).
installedFs(S, d, e) ==
    [ profileDirs   |-> S,
      credentials   |-> [n \in ProfileNames |->
                           IF n \in S
                           THEN JSONstringify(Credentials("id1", "secret1",
                                   [exchangedTokens("x1", 1) EXCEPT !.expiry_date = e]))
                           ELSE Null],
      profileConfig |-> [n \in ProfileNames |-> IF n \in S THEN [createdAt |-> 1] ELSE Null],
      config        |-> [version |-> "1.0", defaultProfile |-> d] ]

\* The profiles that may be installed when the session-level specification
\* starts: the first name; the other names typed name no profile.
InstalledNames == {AllNames[1]}

\* The expiry_date of the installed credentials: none, or the exchange's.
InstalledExpiries == {0, exchangedTokens("x1", 1).expiry_date}

SessionInit ==
    /\ \E S \in SUBSET InstalledNames, e \in InstalledExpiries :
          \E d \in S \cup {Undefined} : fs = installedFs(S, d, e)
    /\ now = 1
    /\ call = NoCall
    /\ pc = [p \in Procs |-> "Idle"]
    /\ cmd = [p \in Procs |-> NoCmd]
    /\ err = [p \in Procs |-> NoError]
    /\ flow = [p \in Procs |-> NoFlow]
    /\ session = [p \in Procs |-> NoSession]
    /\ effects = [p \in Procs |-> NoEffects]
    /\ foreign = {}

\* The gmail, calendar and drive commands, one invocation after the other.
SessionNext ==
    \/ \E g \in CommandGroups, flag \in CliNameInputs, env \in CliNameInputs :
          SessionStart("p1", g, flag, env)
    \/ \E tokens \in TokenPayloads(now) : RefreshOk("p1", tokens)
    \/ RefreshFailed("p1")
    \/ \E tokens \in TokenPayloads(now) : TokenEvent("p1", tokens)
    \/ Finish("p1")
    \/ Exit("p1")
    \/ Tick

SessionSpec == SessionInit /\ [][SessionNext]_vars

\* Two invocations side by side, on one profile name, with the inputs
\* that settle a flow and the token updates that carry at most a new
\* refresh token.
ConcNames == {AllNames[1]}

SettlingRequests ==
    {req \in Requests : /\ req.url = "ok"
                        /\ req.code \in {"x1", Undefined}
                        /\ Truthy(req.code) \/ Truthy(req.error)}

PlainPayloads(t) ==
    {tokens \in TokenPayloads(t) : /\ tokens.scope = Undefined
                                   /\ tokens.token_type = Undefined
                                   /\ tokens.expiry_date = 0}

ConcNext ==
    \/ \E p \in Procs, n \in ConcNames, file \in {"installed", "web"} : AddStart(p, n, file)
    \/ \E p \in Procs : PortAssigned(p)
    \/ \E p \in Procs : PortFailed(p)
    \/ \E p \in Procs : BrowserOpened(p)
    \/ \E p \in Procs, req \in SettlingRequests : Request(p, req)
    \/ \E p \in Procs : CallbackSettled(p)
    \/ \E p \in Procs : ExchangeOk(p)
    \/ \E p \in Procs : AddFinish(p)
    \/ \E p \in Procs, n \in ConcNames : Remove(p, n)
    \/ \E p \in Procs, flag \in ConcNames : SessionStart(p, "gmail", flag, Undefined)
    \/ \E p \in Procs, tokens \in PlainPayloads(now) : TokenEvent(p, tokens)
    \/ \E p \in Procs : Finish(p)
    \/ \E p \in Procs : Exit(p)

ConcSpec == Init /\ [][ConcNext]_vars

\* The names typed in the sequences of commands: two profiles.
SeqNames == {AllNames[1], AllNames[2]}

\* The profiles commands and the gmail commands of one user, one invocation
\* after the other, from an empty store.
SeqNext ==
    \/ \E n \in SeqNames, file \in {"installed", "web"} : AddStart("p1", n, file)
    \/ PortAssigned("p1")
    \/ BrowserOpened("p1")
    \/ \E req \in SettlingRequests : Request("p1", req)
    \/ CallbackSettled("p1")
    \/ ExchangeOk("p1")
    \/ ExchangeFailed("p1")
    \/ AddFinish("p1")
    \/ \E n \in SeqNames : Remove("p1", n)
    \/ \E n \in SeqNames : SetDefault("p1", n)
    \/ \E flag \in SeqNames \cup {Undefined} : SessionStart("p1", "gmail", flag, Undefined)
    \/ \E tokens \in PlainPayloads(now) : RefreshOk("p1", tokens)
    \/ RefreshFailed("p1")
    \/ \E tokens \in PlainPayloads(now) : TokenEvent("p1", tokens)
    \/ Finish("p1")
    \/ Exit("p1")
    \/ Tick

SeqSpec == Init /\ [][SeqNext]_vars

\* calendar create/update hand the --start and --end texts to parseDateTime
\* (commands/calendar.ts).  The texts tried: a keyword, an hour, minutes and a
\* meridian put together, and texts of the other shapes.
Keywords ==
    { <<>>,
      <<"t", "o", "d", "a", "y", " ">>,
      <<"T", "o", "m", "o", "r", "r", "o", "w", " ">> }

HourTexts ==
    { <<"2">>,
      <<"0", "9">>,
      <<"1", "2">>,
      <<"1", "3">>,
      <<"2", "5">> }

MinuteTexts ==
    { <<>>,
      <<":", "3", "0">>,
      <<":", "7", "5">> }

MeridianTexts ==
    { <<>>,
      <<"a", "m">>,
      <<" ", "P", "M">> }

TimeInputs ==
    { k \o h \o m \o a : k \in Keywords, h \in HourTexts, m \in MinuteTexts, a \in MeridianTexts }

OtherInputs ==
    { <<"2", "0", "2", "5", "-", "0", "6", "-", "0", "1", "T", "1", "0", ":", "0", "0">>,
      <<"2", "0", "2", "5", "-", "0", "1", "-", "1", "5", "T", "1", "0", ":", "0", "0", "Z">>,
      <<"2", "0", "2", "5", "-", "1", "3", "-", "4", "5", "T", "1", "0", ":", "0", "0">>,
      <<"2", "0", "2", "5", "-", "0", "6", "-", "0", "1", "T", "1", "0", ":", "0", "0", "x">>,
      <<"2", "0", "2", "5", "-", "0", "1", "-", "1", "5", " ", "1", "0", ":", "0", "0">>,
      <<"2", "0", "2", "5", "-", "0", "6", "-", "0", "2", " ", "9", ":", "3", "0">>,
      <<"2", "0", "2", "5", "-", "1", "3", "-", "4", "5", " ", "1", "0", ":", "0", "0">>,
      <<"t", "o", "m", "o", "r", "r", "o", "w", " ", "2", "0", "2", "5", "-", "0", "6", "-", "0", "5", " ", "1", "0", ":", "0", "0">>,
      <<"2", "0", "2", "5", "-", "0", "6", "-", "0", "3">>,
      <<"2", "0", "2", "5", "-", "1", "3", "-", "4", "5">>,
      <<"g", "a", "r", "b", "a", "g", "e">>,
      <<>>,
      <<"t", "o", "d", "a", "y">>,
      <<"n", "e", "x", "t", " ", "w", "e", "e", "k", " ", "5">>,
      <<"2", "p", "m", " ", "x">>,
      <<" ", "1", "4", ":", "0", "0", " ">>,
      <<"T", "O", "M", "O", "R", "R", "O", "W", "2", "p", "m">>,
      <<"t", "o", "m", "o", "r", "r", "o", "w", " ", "2", "p", "m">>,
      <<"1", "1", "p", "m">> }

ParseInputs == TimeInputs \cup OtherInputs

\* The local calendar dates on which the command runs.
Todays ==
    { Instant("local", 2025, 6, 1, 0, 0),
      Instant("local", 2025, 6, 30, 0, 0),
      Instant("local", 2025, 12, 31, 0, 0) }

ParseCall(input, today, r) ==
    [ op |-> "parseDateTime", input |-> input, today |-> today,
      ok |-> r.ok, value |-> r.value, error |-> r.error ]

ApiParseDateTime(input, today, freeForm) ==
    /\ call' = ParseCall(input, today, parseDateTime(input, today, freeForm))
    /\ UNCHANGED <<fs, now, pc, cmd, err, flow, session, effects, foreign>>

ParseNext ==
    \E input \in ParseInputs, today \in Todays :
        \E freeForm \in freeFormDates(input) : ApiParseDateTime(input, today, freeForm)

ParseSpec == Init /\ [][ParseNext]_vars

\* A session of one of two installed profiles, the first of them the
\* default, over every 'tokens' payload.
MergeNames == {AllNames[1], AllNames[2]}

MergeInit ==
    /\ \E e \in InstalledExpiries : fs = installedFs(MergeNames, AllNames[1], e)
    /\ now = 1
    /\ call = NoCall
    /\ pc = [p \in Procs |-> "Idle"]
    /\ cmd = [p \in Procs |-> NoCmd]
    /\ err = [p \in Procs |-> NoError]
    /\ flow = [p \in Procs |-> NoFlow]
    /\ session = [p \in Procs |-> NoSession]
    /\ effects = [p \in Procs |-> NoEffects]
    /\ foreign = {}

MergeNext ==
    \/ \E flag \in MergeNames : SessionStart("p1", "gmail", flag, Undefined)
    \/ \E tokens \in TokenPayloads(now) : RefreshOk("p1", tokens)
    \/ RefreshFailed("p1")
    \/ \E tokens \in TokenPayloads(now) : TokenEvent("p1", tokens)
    \/ Finish("p1")
    \/ Exit("p1")
    \/ Tick

MergeSpec == MergeInit /\ [][MergeNext]_vars

\* The profiles commands run one at a time, with the names a command line
\* can give to remove and set-default.
ArgNames == SeqNames \cup {"."}

ArgsNext ==
    \/ \E n \in SeqNames : AddStart("p1", n, "installed")
    \/ PortAssigned("p1")
    \/ BrowserOpened("p1")
    \/ \E req \in SettlingRequests : Request("p1", req)
    \/ CallbackSettled("p1")
    \/ ExchangeOk("p1")
    \/ AddFinish("p1")
    \/ \E n \in ArgNames : Remove("p1", n)
    \/ \E n \in ArgNames : SetDefault("p1", n)
    \/ Exit("p1")

ArgsSpec == Init /\ [][ArgsNext]_vars

----------------------------------------------------------------------------
(* Properties of the profile store (StoreSpec) *)

\* What the store's interface shows: the profiles, their two files and the
\* default pointer.  A config.json holding only the defaults shows the same
\* as none.
storeView(f) ==
    [ profiles |-> f.profileDirs, credentials |-> f.credentials,
      profileConfig |-> f.profileConfig, defaultProfile |-> storedDefault(f) ]

\* C2: getActiveProfile returns the explicit name when it names an existing
\* profile, whatever GWCLI_PROFILE and the default are; with no explicit name
\* it returns GWCLI_PROFILE when that names an existing profile; with neither
\* it returns the default when that names an existing profile.
C2_Precedence ==
    call.op = "getActiveProfile" =>
        LET d == storedDefault(fs)
        IN  /\ (Truthy(call.explicit) /\ call.explicit \in fs.profileDirs)
                  => (call.ok /\ call.value = call.explicit)
            /\ (~Truthy(call.explicit) /\ Truthy(call.env) /\ call.env \in fs.profileDirs)
                  => (call.ok /\ call.value = call.env)
            /\ (~Truthy(call.explicit) /\ ~Truthy(call.env) /\ Truthy(d) /\ d \in fs.profileDirs)
                  => (call.ok /\ call.value = d)

\* explicit = a, GWCLI_PROFILE = b, default = c, three different existing
\* profiles, and a was returned.
C2_Witness ==
    /\ call.op = "getActiveProfile"
    /\ {call.explicit, call.env, storedDefault(fs)} \subseteq fs.profileDirs
    /\ Cardinality({call.explicit, call.env, storedDefault(fs)}) = 3
    /\ call.ok /\ call.value = call.explicit

\* C3: a call of getActiveProfile fails with the no-profile error exactly
\* when none of explicit, GWCLI_PROFILE and the default is set; it fails with
\* the unknown-profile error naming the first set source when that source
\* names no existing profile, whatever the lower sources are; and a failing
\* call leaves the profiles, their files and the default pointer as they were.
C3_ResolutionFailures ==
    [][ call'.op = "getActiveProfile" =>
          LET e     == call'.explicit
              v     == call'.env
              d     == storedDefault(fs)
              first == IF Truthy(e) THEN e ELSE IF Truthy(v) THEN v ELSE d
          IN  /\ (call'.error.kind = "NoProfile")
                    <=> (~Truthy(e) /\ ~Truthy(v) /\ ~Truthy(d))
              /\ (Truthy(first) /\ first \notin fs.profileDirs)
                    => (~call'.ok /\ call'.error = Err("UnknownProfile", first))
              /\ (~call'.ok) => (storeView(fs') = storeView(fs))
      ]_vars

\* The explicit name is that of no profile while GWCLI_PROFILE and the
\* default name existing ones, and the call failed naming the explicit name.
C3_Witness ==
    /\ call.op = "getActiveProfile"
    /\ Truthy(call.explicit) /\ call.explicit \notin fs.profileDirs
    /\ call.env \in fs.profileDirs /\ storedDefault(fs) \in fs.profileDirs
    /\ ~call.ok /\ call.error = Err("UnknownProfile", call.explicit)

\* C5: after deleteProfile removed a profile, getDefaultProfile returns
\* nothing if that profile was the default, and what it returned before
\* otherwise.
C5_DeleteDefault ==
    (call.op = "deleteProfile" /\ call.ok) =>
        IF call.value = call.name
        THEN getDefaultProfile(fs).ret = Undefined
        ELSE getDefaultProfile(fs).ret = call.value

\* The default profile was deleted while another profile remains.
C5_Witness ==
    /\ call.op = "deleteProfile" /\ call.ok
    /\ call.value = call.name
    /\ fs.profileDirs # {}
    /\ getDefaultProfile(fs).ret = Undefined

\* C13: right after saveProfileCredentials(N, C), getProfileCredentials(N)
\* returns C, whether N had credentials before or not, and saving C again
\* changes nothing.
C13_RoundTrip ==
    [][ call'.op = "saveProfileCredentials" =>
          /\ getProfileCredentials(fs', call'.name) = call'.value
          /\ profileExists(fs', call'.name)
          /\ saveProfileCredentials(fs', call'.name, call'.value) = fs'
      ]_vars

\* A profile that has a config.json, and so was there before the save, holds
\* the record just saved, one that has no refresh token.
C13_Witness ==
    /\ call.op = "saveProfileCredentials"
    /\ getProfileConfig(fs, call.name) # Null
    /\ call.value.tokens.refresh_token = Undefined
    /\ getProfileCredentials(fs, call.name) = call.value

\* C15: deleteProfile(name) of a name that is no profile returns false and
\* leaves the store as it was; of a profile it returns true, and then
\* profileExists(name) is false and the profile's credentials and config
\* read as absent.
C15_DeleteResult ==
    [][ call'.op = "deleteProfile" =>
          IF call'.name \notin fs.profileDirs
          THEN /\ ~call'.ok
               /\ fs' = fs
          ELSE /\ call'.ok
               /\ ~profileExists(fs', call'.name)
               /\ getProfileCredentials(fs', call'.name) = Null
               /\ getProfileConfig(fs', call'.name) = Null
      ]_vars

\* deleteProfile returned false on a store that holds profiles and a
\* default pointer.
C15_Witness ==
    /\ call.op = "deleteProfile"
    /\ ~call.ok
    /\ call.name \notin fs.profileDirs
    /\ fs.profileDirs # {}
    /\ storedDefault(fs) \in fs.profileDirs

----------------------------------------------------------------------------
(* Properties of the session provider (SessionSpec) *)

C4_FlagReachesGetActiveProfile ==
    \A p \in Procs :
        ( /\ cmd[p].kind \in CommandGroups
          /\ pc[p] # "Idle"
          /\ Truthy(cmd[p].flag) ) =>
            session[p].explicit = cmd[p].flag

----------------------------------------------------------------------------
(* Properties of profiles add and its authorization flow (FlowSpec) *)

\* The invocation p holds no listener on the port of its flow.
Unbound(p) == flow[p].listener = "none"

\* C6: profiles add with the name of an existing profile fails with the
\* duplicate-profile error in its first step: no port was bound, no browser
\* opened and no token exchange started, and the store is as it was.
C6_DuplicateAdd ==
    [][ \A p \in Procs :
          ( /\ pc[p] = "Idle"
            /\ pc'[p] # "Idle"
            /\ cmd'[p].kind = "add"
            /\ cmd'[p].name \in fs.profileDirs ) =>
              /\ pc'[p] = "Failed"
              /\ err'[p] = Err("DuplicateProfile", cmd'[p].name)
              /\ effects'[p] = NoEffects
              /\ flow'[p] = NoFlow
              /\ fs' = fs
      ]_vars

\* add failed on a profile that is there with its credentials and config.
C6_Witness ==
    \E p \in Procs :
        /\ pc[p] = "Failed"
        /\ cmd[p].kind = "add"
        /\ err[p] = Err("DuplicateProfile", cmd[p].name)
        /\ getProfileCredentials(fs, cmd[p].name) # Null
        /\ getProfileConfig(fs, cmd[p].name) # Null
        /\ effects[p] = NoEffects

\* C7: a callback request with ?error=E served while the flow waits rejects
\* the flow's promise with the authorization-denied error carrying E and
\* closes the listener, writing nothing; the flow then goes nowhere but to
\* Failed with that error; and a flow that failed so holds no listener and
\* has persisted nothing for its profile.
C7_ErrorCallback ==
    [][ \A p \in Procs :
          /\ ( /\ pc[p] = "AwaitCallback"
               /\ flow[p].listener = "callback"
               /\ flow[p].promise.state = "pending"
               /\ flow'[p].request # flow[p].request
               /\ flow'[p].request.url = "ok"
               /\ Truthy(flow'[p].request.error) ) =>
                 /\ flow'[p].promise.state = "rejected"
                 /\ flow'[p].promise.error = Err("OAuth", flow'[p].request.error)
                 /\ flow'[p].listener = "none"
                 /\ fs' = fs
          /\ ( /\ pc[p] = "AwaitCallback"
               /\ flow[p].promise.state = "rejected"
               /\ pc'[p] # "AwaitCallback" ) =>
                 /\ pc'[p] = "Failed"
                 /\ err'[p] = flow[p].promise.error
                 /\ fs' = fs
          /\ ( /\ pc'[p] = "Failed"
               /\ err'[p].kind = "OAuth" ) =>
                 /\ flow'[p].listener = "none"
                 /\ err'[p] = flow'[p].promise.error
                 /\ cmd'[p].name \notin fs'.profileDirs
                 /\ getProfileCredentials(fs', cmd'[p].name) = Null
      ]_vars

\* The flow failed on ?error=access_denied.
C7_Witness ==
    \E p \in Procs :
        /\ pc[p] = "Failed"
        /\ flow[p].request.url = "ok"
        /\ flow[p].request.error = "access_denied"
        /\ err[p] = Err("OAuth", "access_denied")
        /\ Unbound(p)
        /\ ~profileExists(fs, cmd[p].name)

\* C8: a callback request with ?code=X served while the flow waits resolves
\* the flow's promise with X and closes the listener; and when the flow is
\* Persisted, getProfileCredentials returns for its profile the client id
\* and secret of the client file and the tokens the provider answered for X.
C8_CodeCallback ==
    [][ \A p \in Procs :
          /\ ( /\ pc[p] = "AwaitCallback"
               /\ flow[p].listener = "callback"
               /\ flow[p].promise.state = "pending"
               /\ flow'[p].request # flow[p].request
               /\ flow'[p].request.url = "ok"
               /\ ~Truthy(flow'[p].request.error)
               /\ Truthy(flow'[p].request.code) ) =>
                 /\ flow'[p].promise.state = "resolved"
                 /\ flow'[p].promise.code = flow'[p].request.code
                 /\ flow'[p].listener = "none"
          /\ ( /\ pc[p] = "AwaitToken"
               /\ pc'[p] = "Persisted" ) =>
                 /\ flow[p].promise.state = "resolved"
                 /\ flow[p].code = flow[p].promise.code
                 /\ Truthy(flow[p].code)
                 /\ getProfileCredentials(fs', cmd[p].name)
                      = Credentials(parseOAuthClientFile(cmd[p].client).clientId,
                                    parseOAuthClientFile(cmd[p].client).clientSecret,
                                    exchangedTokens(flow[p].code, now))
      ]_vars

\* The flow is Persisted after ?code=x2 with the client file's second shape.
C8_Witness ==
    \E p \in Procs :
        /\ pc[p] = "Persisted"
        /\ flow[p].request.code = "x2"
        /\ cmd[p].client = "web"
        /\ getProfileCredentials(fs, cmd[p].name)
              = Credentials("id2", "secret2", exchangedTokens("x2", now))

\* C9: an add invocation whose flow has ended, in Persisted or in Failed,
\* holds no listener.
C9_TerminalUnbound ==
    \A p \in Procs :
        (cmd[p].kind = "add" /\ pc[p] \in {"Persisted", "Done", "Failed"}) => Unbound(p)

----------------------------------------------------------------------------
(* Properties of invocations running side by side (ConcSpec) *)

\* C10: a gmail, calendar or drive command whose profile resolves to one
\* with no stored credentials fails in its first step with the
\* missing-credentials error naming that profile; it has tried no refresh
\* and written nothing to the store.
C10_MissingCredentials ==
    [][ \A p \in Procs :
          ( /\ pc[p] = "Idle"
            /\ pc'[p] # "Idle"
            /\ cmd'[p].kind \in CommandGroups
            /\ Truthy(session'[p].profileName)
            /\ fs.credentials[session'[p].profileName] = Null ) =>
              /\ pc'[p] = "Failed"
              /\ err'[p] = Err("MissingCredentials", session'[p].profileName)
              /\ session'[p].credentials = Null
              /\ effects'[p].refreshes = 0
              /\ fs' = fs
      ]_vars

\* A command failed on a profile whose directory is there without
\* credentials.
C10_Witness ==
    \E p \in Procs :
        /\ pc[p] = "Failed"
        /\ cmd[p].kind \in CommandGroups
        /\ profileExists(fs, session[p].profileName)
        /\ getProfileCredentials(fs, session[p].profileName) = Null
        /\ err[p] = Err("MissingCredentials", cmd[p].flag)
        /\ effects[p].refreshes = 0

\* C11: a command whose loaded expiry_date is set and earlier than now asks
\* for one refresh before anything else; from there it becomes Ready only
\* with the refreshed tokens written to the store, or fails with the
\* token-refresh error naming the profile, the store untouched; it asks for
\* no second refresh, and it is never Ready on the expired tokens.
C11_EagerRefresh ==
    [][ \A p \in Procs :
          /\ ( /\ pc[p] = "Idle"
               /\ cmd'[p].kind \in CommandGroups
               /\ session'[p].credentials # Null
               /\ session'[p].credentials.tokens.expiry_date # 0
               /\ session'[p].credentials.tokens.expiry_date < now ) =>
                 /\ pc'[p] = "AwaitRefresh"
                 /\ session'[p].expired
                 /\ effects'[p].refreshes = 1
                 /\ fs' = fs
          /\ ( pc[p] = "AwaitRefresh" /\ pc'[p] # "AwaitRefresh" ) =>
                 /\ effects'[p].refreshes = 1
                 /\ \/ /\ pc'[p] = "Ready"
                       /\ session'[p].events = 1
                       /\ getProfileCredentials(fs', session[p].profileName) # Null
                       /\ getProfileCredentials(fs', session[p].profileName).tokens.access_token
                            = session'[p].tokens.access_token
                    \/ /\ pc'[p] = "Failed"
                       /\ err'[p] = Err("TokenRefresh", session[p].profileName)
                       /\ fs' = fs
          /\ ( pc'[p] = "Ready" /\ session'[p].expired ) => session'[p].events >= 1
      ]_vars

\* A command that found its token expired is Ready after its one refresh,
\* the new access token in the store.
C11_Witness ==
    \E p \in Procs :
        /\ pc[p] = "Ready"
        /\ session[p].expired
        /\ session[p].events = 1
        /\ effects[p].refreshes = 1
        /\ getProfileCredentials(fs, session[p].profileName).tokens.access_token = "at-new"

\* C12: a command whose loaded expiry_date is unset, or not earlier than
\* now, is Ready in its first step: no refresh was asked for and the store is
\* as it was.
C12_NoRefreshWhenFresh ==
    [][ \A p \in Procs :
          ( /\ pc[p] = "Idle"
            /\ cmd'[p].kind \in CommandGroups
            /\ session'[p].credentials # Null
            /\ \/ session'[p].credentials.tokens.expiry_date = 0
               \/ session'[p].credentials.tokens.expiry_date >= now ) =>
              /\ pc'[p] = "Ready"
              /\ ~session'[p].expired
              /\ session'[p].events = 0
              /\ effects'[p].refreshes = 0
              /\ fs' = fs
      ]_vars

\* A command is Ready without a refresh on credentials with no expiry_date,
\* after the time any set expiry_date of an installation has passed.
C12_Witness ==
    \E p \in Procs :
        /\ pc[p] = "Ready"
        /\ session[p].credentials.tokens.expiry_date = 0
        /\ now > 2
        /\ session[p].events = 0
        /\ effects[p].refreshes = 0
        /\ getProfileCredentials(fs, session[p].profileName) = session[p].credentials

\* C18: no lock orders the invocations that refresh one profile.  Whenever an
\* invocation's observer runs it overwrites the stored record with the merge
\* of its own payload into the copy it read at its start, whatever another
\* invocation has written since: the last writer's TokenSet is the one stored.
C18_LastWriterWins ==
    [][ \A p \in Procs :
          ( /\ pc[p] = "Ready"
            /\ session'[p].events = session[p].events + 1 ) =>
              /\ session[p].profileName \in fs'.profileDirs
              /\ fs'.credentials[session[p].profileName]
                   = JSONstringify(updatedCredentials(session[p].credentials,
                                                      session'[p].tokens))
      ]_vars

\* Two invocations read the same stored TokenSet and both refreshed; the
\* first got a rotated refresh token and saved it, the second saved its own
\* merge over it: the rotated refresh token is in the store no more.
C18_Witness ==
    \E p \in Procs : \E q \in Procs \ {p} :
        /\ session[p].profileName = session[q].profileName
        /\ session[p].credentials # Null
        /\ session[p].credentials = session[q].credentials
        /\ session[p].events = 1 /\ session[q].events = 1
        /\ session[p].tokens.refresh_token = "rt-new"
        /\ session[q].tokens.refresh_token = Undefined
        /\ getProfileCredentials(fs, session[q].profileName)
             = updatedCredentials(session[q].credentials, session[q].tokens)
        /\ getProfileCredentials(fs, session[q].profileName).tokens.refresh_token
             = session[q].credentials.tokens.refresh_token
        /\ session[q].credentials.tokens.refresh_token # "rt-new"

----------------------------------------------------------------------------
(* Properties of sequences of commands (SeqSpec) *)

\* No invocation is in the middle of a command.
Quiescent == \A p \in Procs : pc[p] \in {"Idle", "Done", "Failed"}

----------------------------------------------------------------------------
(* Properties of parseDateTime (ParseSpec) *)

\* What is left of an input once a leading today/tomorrow is stripped.
remainder(input) ==
    LET trimmed == trim(input)
    IN  IF startsWith(toLowerCase(trimmed), Today) THEN trim(slice(trimmed, 5))
        ELSE IF startsWith(toLowerCase(trimmed), Tomorrow) THEN trim(slice(trimmed, 8))
        ELSE trimmed

\* The base date of an input: the day after today behind tomorrow, else today.
baseDateOf(input, today) ==
    IF ~startsWith(toLowerCase(trim(input)), Today)
       /\ startsWith(toLowerCase(trim(input)), Tomorrow)
    THEN nextDay(today) ELSE today

\* A pm suffix on an hour greater than 12.
PmPastTwelve(input) ==
    /\ ~isoPrefixTest(input)
    /\ ~dateTimeMatch(remainder(input)).matched
    /\ timeOnlyMatch(remainder(input)).matched
    /\ timeOnlyMatch(remainder(input)).meridian = <<"p", "m">>
    /\ timeOnlyMatch(remainder(input)).hours > 12

\* An ISO-prefixed or date-shaped input whose text denotes no valid instant.
ShapedButInvalid(input) ==
    \/ isoPrefixTest(input) /\ isoDate(input) = InvalidDate
    \/ /\ ~isoPrefixTest(input)
       /\ dateTimeMatch(remainder(input)).matched
       /\ LET dt == dateTimeMatch(remainder(input))
          IN  ~ValidFields(dt.y, dt.m, dt.d, dt.h, dt.mi)

\* An input of no recognized shape that free-form parsing makes nothing of.
NoShape(input) ==
    /\ ~isoPrefixTest(input)
    /\ ~dateTimeMatch(remainder(input)).matched
    /\ ~timeOnlyMatch(remainder(input)).matched
    /\ freeFormDates(input) = {InvalidDate}

\* C16: every input that matches none of the recognized shapes -- a pm suffix
\* on an hour greater than 12 such as "13pm", an ISO-prefixed or date-shaped
\* text that denotes no valid instant, or garbage -- fails with the
\* unparseable-input error naming the input verbatim: no instant and no other
\* kind of error comes out.
C16_UnrecognizedFails ==
    ( /\ call.op = "parseDateTime"
      /\ PmPastTwelve(call.input) \/ ShapedButInvalid(call.input) \/ NoShape(call.input) )
    => /\ ~call.ok
       /\ call.error = Err("Unparseable", call.input)

\* The hour of a time-only text after the 12-hour conversion.
convertedHour(tm) ==
    IF tm.meridian = <<"p", "m">> /\ tm.hours < 12 THEN tm.hours + 12
    ELSE IF tm.meridian = <<"a", "m">> /\ tm.hours = 12 THEN 0
    ELSE tm.hours

\* C17: for an input with a leading today/tomorrow and for a time-only input,
\* the instant returned has the base date (today, or the day after for
\* tomorrow) as its local calendar date and the parsed hour and minute as its
\* local time of day, whatever the remainder and the accepted hour and
\* minute are.
C17_BaseDateAndTime ==
    ( /\ call.op = "parseDateTime"
      /\ ~isoPrefixTest(call.input)
      /\ call.ok
      /\ \/ remainder(call.input) # trim(call.input)
         \/ timeOnlyMatch(remainder(call.input)).matched )
    => /\ call.value.zone = "local"
       /\ <<call.value.y, call.value.m, call.value.d>>
            = LET b == baseDateOf(call.input, call.today) IN <<b.y, b.m, b.d>>
       /\ timeOnlyMatch(remainder(call.input)).matched
            => /\ call.value.h = convertedHour(timeOnlyMatch(remainder(call.input)))
               /\ call.value.mi = timeOnlyMatch(remainder(call.input)).minutes

----------------------------------------------------------------------------
(* The states of the authorization flow (FlowSpec) *)

\* The flow's state in the state machine of profiles add, read off the
\* position of the invocation and its callback promise.  The exchange is in
\* flight while the code is held; getToken's resolution and the save that
\* follows it are one step, so TokenExchanged is passed within that step.
flowState(position, f) ==
    CASE position = "Idle"                               -> "Idle"
      [] position = "AwaitPort" /\ f.listener = "none"   -> "Idle"
      [] position = "AwaitPort" /\ f.listener # "none"   -> "PortBound"
      [] position = "AwaitOpen"                          -> "BrowserLaunched"
      [] position = "AwaitCallback" /\ f.promise.state = "pending"  -> "WaitingForCallback"
      [] position = "AwaitCallback" /\ f.promise.state = "resolved" -> "CodeReceived"
      [] position = "AwaitCallback" /\ f.promise.state = "rejected" -> "ErrorReceived"
      [] position = "AwaitToken"                         -> "CodeReceived"
      [] position \in {"Persisted", "Done"}              -> "Persisted"
      [] position = "Failed"                             -> "Failed"
      [] OTHER                                           -> "none"

\* The steps of the state machine; a failed bind of the callback listener
\* reaches the flow as a rejection of the promise it is about to await.
FlowOrder ==
    { <<"Idle", "PortBound">>, <<"PortBound", "BrowserLaunched">>,
      <<"BrowserLaunched", "WaitingForCallback">>,
      <<"WaitingForCallback", "CodeReceived">>, <<"CodeReceived", "Persisted">>,
      <<"BrowserLaunched", "ErrorReceived">>, <<"WaitingForCallback", "ErrorReceived">>,
      <<"ErrorReceived", "Failed">> }
    \cup { <<st, "Failed">> : st \in { "Idle", "PortBound", "BrowserLaunched",
                                       "WaitingForCallback", "CodeReceived" } }

\* C19: profiles add moves through Idle, PortBound, BrowserLaunched,
\* WaitingForCallback and then CodeReceived, (TokenExchanged,) Persisted or
\* ErrorReceived, Failed, in this order only; an error ends in Failed from any
\* state; Persisted and Failed are left only by the end of the process, never
\* by a retry; and the credentials file changes only in the step from the
\* token exchange to Persisted.
C19_FlowOrder ==
    [][ \A p \in Procs :
          LET before == flowState(pc[p], flow[p])
              after  == flowState(pc'[p], flow'[p])
          IN  /\ ( cmd'[p].kind = "add" /\ before # after ) =>
                    <<before, after>> \in FlowOrder
              /\ ( cmd'[p].kind = "add" /\ err'[p] # err[p] ) => after = "Failed"
              /\ ( cmd[p].kind = "add" /\ before \in {"Persisted", "Failed"}
                   /\ before # after ) =>
                    /\ after = "Idle"
                    /\ cmd'[p] = NoCmd /\ flow'[p] = NoFlow
              /\ ( cmd'[p].kind = "add" /\ fs'.credentials # fs.credentials ) =>
                    /\ pc[p] = "AwaitToken"
                    /\ after = "Persisted"
                    /\ fs'.credentials[cmd[p].name] # Null
      ]_vars

\* An add went all the way: its handler is done and the new profile's
\* credentials are stored, exchanged for the code of the callback.
C19_Witness ==
    \E p \in Procs :
        /\ cmd[p].kind = "add"
        /\ pc[p] = "Done"
        /\ flow[p].promise.state = "resolved"
        /\ Truthy(flow[p].code)
        /\ effects[p].launches = 1 /\ effects[p].exchanges = 1
        /\ getProfileCredentials(fs, cmd[p].name) # Null

----------------------------------------------------------------------------
(* The callback promise (FlowSpec) *)

\* The promise as a callback request carrying error or code settles it:
\* rejected with the provider's error when there is one, else resolved with
\* the code.
ByCallback(req, promise) ==
    /\ req.url = "ok"
    /\ IF Truthy(req.error)
       THEN promise = Promise("rejected", Undefined, Err("OAuth", req.error))
       ELSE Truthy(req.code) /\ promise = Promise("resolved", req.code, NoError)

\* A settled promise stays as it is, whatever is served afterwards.
SettledStays(p) ==
    flow[p].promise.state \in {"resolved", "rejected"} => flow'[p].promise = flow[p].promise

\* A request carrying error or code served on a pending promise settles it,
\* error first.
FirstCarrierSettles(p) ==
    ( /\ flow[p].promise.state = "pending"
      /\ flow'[p].request # flow[p].request
      /\ flow'[p].request.url = "ok"
      /\ Truthy(flow'[p].request.error) \/ Truthy(flow'[p].request.code) )
    => ByCallback(flow'[p].request, flow'[p].promise)

\* The token exchange gets the code the promise was resolved with, and the
\* tokens saved are the ones answered for it.
ExchangeUsesSettledCode(p) ==
    /\ ( pc[p] # "AwaitToken" /\ pc'[p] = "AwaitToken" ) =>
          /\ flow[p].promise.state = "resolved"
          /\ flow'[p].code = flow[p].promise.code
    /\ ( pc[p] = "AwaitToken" /\ pc'[p] \in {"AwaitToken", "Persisted"} ) =>
          /\ flow'[p].code = flow[p].code
          /\ flow'[p].code = flow'[p].promise.code
    /\ ( pc[p] = "AwaitToken" /\ pc'[p] = "Persisted" ) =>
          getProfileCredentials(fs', cmd[p].name).tokens
             = exchangedTokens(flow[p].promise.code, now)

\* C20: the callback promise is settled once only: by the first callback
\* request that carries error or code, error first, unless a request whose
\* URL cannot be parsed or an error of the listener has rejected it before;
\* a request served after the settlement, whatever its parameters, changes
\* neither the outcome nor the code handed to the token exchange.
C20_SettledOnce ==
    [][ \A p \in Procs :
          cmd'[p].kind = "add" =>
            /\ SettledStays(p)
            /\ FirstCarrierSettles(p)
            /\ ExchangeUsesSettledCode(p)
            /\ ( flow[p].promise.state = "pending"
                 /\ flow'[p].promise # flow[p].promise ) =>
                   \/ ByCallback(flow'[p].request, flow'[p].promise)
                   \/ /\ flow'[p].request.url = "bad"
                      /\ flow'[p].promise = Promise("rejected", Undefined, Err("Handler", Undefined))
                   \/ flow'[p].promise = Promise("rejected", Undefined, Err("Server", Undefined))
      ]_vars

\* C20 as stated: the promise is settled once, and what settles it is the
\* first callback request that carries error or code.
C20_SettledByCarrierOnly ==
    [][ \A p \in Procs :
          cmd'[p].kind = "add" =>
            /\ SettledStays(p)
            /\ FirstCarrierSettles(p)
            /\ ExchangeUsesSettledCode(p)
            /\ ( flow[p].promise.state = "pending"
                 /\ flow'[p].promise # flow[p].promise ) =>
                   ByCallback(flow'[p].request, flow'[p].promise)
      ]_vars

\* The promise was resolved with one code and the exchange asked for it; a
\* request carrying another code was served afterwards.
C20_Witness ==
    \E p \in Procs :
        /\ pc[p] = "AwaitToken"
        /\ flow[p].promise = Promise("resolved", "x1", NoError)
        /\ flow[p].code = "x1"
        /\ flow[p].request.url = "ok"
        /\ flow[p].request.code = "x2"
        /\ flow[p].status = 200
----------------------------------------------------------------------------
(* Requests without parameters (FlowSpec) *)

\* A request with a URL that carries neither code nor error.
Bare(req) == req.url = "ok" /\ ~Truthy(req.error) /\ ~Truthy(req.code)

----------------------------------------------------------------------------
(* The token observer's write (MergeSpec) *)

\* The observer of p ran in this step.
ObserverRan(p) == session'[p].events = session[p].events + 1

\* A field of the record the observer writes: the payload's value where the
\* payload has one, the value of the TokenSet the session holds otherwise.
Merged(new, previous) == IF Truthy(new) THEN new ELSE previous

----------------------------------------------------------------------------
(* The default pointer after profiles add (FlowSpec) *)

\* C23: when profiles add has succeeded, the new profile is the default if
\* it is the only profile of the store, and the default pointer is as it was
\* before if other profiles exist; the add's earlier steps leave the pointer
\* alone.
C23_FirstProfileDefault ==
    [][ \A p \in Procs :
          /\ ( cmd[p].kind = "add" /\ pc[p] = "Persisted" /\ pc'[p] = "Done" ) =>
                /\ fs'.profileDirs = fs.profileDirs
                /\ cmd[p].name \in fs'.profileDirs
                /\ IF fs'.profileDirs = {cmd[p].name}
                   THEN storedDefault(fs') = cmd[p].name
                   ELSE /\ storedDefault(fs') = storedDefault(fs)
                        /\ fs'.config = fs.config
          /\ ( cmd'[p].kind = "add" /\ pc'[p] # "Done" ) => fs'.config = fs.config
      ]_vars

\* An add succeeded next to a profile that was there: the older profile is
\* still the default.
C23_Witness ==
    \E p \in Procs :
        /\ cmd[p].kind = "add"
        /\ pc[p] = "Done"
        /\ Cardinality(fs.profileDirs) = 2
        /\ storedDefault(fs) \in fs.profileDirs \ {cmd[p].name}
        /\ getProfileConfig(fs, cmd[p].name) # Null
----------------------------------------------------------------------------
(* The 12-hour conversion (ParseSpec) *)

\* The time-only text of a call whose hour and minute are those of a clock.
ClockTime(c) ==
    /\ c.op = "parseDateTime"
    /\ ~isoPrefixTest(c.input)
    /\ ~dateTimeMatch(remainder(c.input)).matched
    /\ timeOnlyMatch(remainder(c.input)).matched
    /\ timeOnlyMatch(remainder(c.input)).hours <= 23
    /\ timeOnlyMatch(remainder(c.input)).minutes <= 59

\* C24: in the time-only form, for an hour H of the clock, pm with H < 12
\* gives hour H + 12, am with H = 12 gives hour 0, am with H < 12 and pm with
\* H = 12 give H, and no suffix gives H as it is: "14:00" is 14:00 local
\* time.  The minute is the one written, or 0.
C24_TwelveHourConversion ==
    /\ \A H \in 0..23 :
          /\ meridianHours(H, <<"p", "m">>) = (IF H < 12 THEN H + 12 ELSE H)
          /\ meridianHours(H, <<"a", "m">>) = (IF H = 12 THEN 0 ELSE H)
          /\ meridianHours(H, <<>>) = H
    /\ ClockTime(call) =>
          LET tm == timeOnlyMatch(remainder(call.input))
              H  == tm.hours
              pm == tm.meridian = <<"p", "m">>
              am == tm.meridian = <<"a", "m">>
          IN  /\ call.ok
              /\ call.value.zone = "local"
              /\ call.value.mi = tm.minutes
              /\ (pm /\ H < 12) => call.value.h = H + 12
              /\ (am /\ H = 12) => call.value.h = 0
              /\ (am /\ H < 12) => call.value.h = H
              /\ (pm /\ H = 12) => call.value.h = H
              /\ (~am /\ ~pm) => call.value.h = H

\* "12am" was parsed: the hour is 0, on today's date.
C24_Witness ==
    /\ call.op = "parseDateTime"
    /\ call.input = <<"1", "2", "a", "m">>
    /\ call.ok
    /\ call.value.h = 0
    /\ <<call.value.y, call.value.m, call.value.d>>
         = <<call.today.y, call.today.m, call.today.d>>
----------------------------------------------------------------------------
(* The listener at the launch of the browser (FlowSpec) *)

\* C25: from the launch of the browser (and the printing of the URL) until
\* the callback promise is settled, the callback listener of the flow is
\* bound on the redirect port, so that a redirect sent after the launch finds
\* it.
C25_ListenerBoundAtLaunch ==
    \A p \in Procs :
        ( /\ cmd[p].kind = "add"
          /\ effects[p].launches > 0
          /\ pc[p] \in {"AwaitOpen", "AwaitCallback"}
          /\ flow[p].promise.state \notin {"resolved", "rejected"} ) =>
            flow[p].listener = "callback"
----------------------------------------------------------------------------
(* Successive token updates of one session (MergeSpec) *)

\* C26: within a session every token update leaves in the store, for the
\* refresh token, the scope, the token type and the expiry date, the value of
\* its payload where the payload has one and the value stored before it
\* otherwise; so the stored value is the one of the most recent update that
\* carried the field, or the loaded one, and an update that omits a field
\* brings no earlier value back.
C26_LatestValueKept ==
    [][ \A p \in Procs :
          ObserverRan(p) =>
            LET n      == session[p].profileName
                new    == session'[p].tokens
                before == getProfileCredentials(fs, n)
                after  == getProfileCredentials(fs', n)
            IN  /\ before # Null
                /\ after # Null
                /\ after.tokens.refresh_token
                     = Merged(new.refresh_token, before.tokens.refresh_token)
                /\ after.tokens.scope = Merged(new.scope, before.tokens.scope)
                /\ after.tokens.token_type
                     = Merged(new.token_type, before.tokens.token_type)
                /\ after.tokens.expiry_date
                     = IF new.expiry_date # 0 THEN new.expiry_date
                       ELSE before.tokens.expiry_date
      ]_vars
----------------------------------------------------------------------------
(* The store after a failed flow (FlowSpec) *)

\* C27: no step of a profiles add that has not persisted changes the profile
\* store, so a flow that ends in Failed -- consent denied, handler or
\* listener error, port bind failure, token-exchange failure -- leaves the
\* store as it was when the flow started: no directory, credentials record
\* or config record of the profile is created and the default pointer is the
\* same.
C27_FailedFlowWritesNothing ==
    [][ \A p \in Procs :
          ( /\ cmd'[p].kind = "add"
            /\ pc'[p] \in {"AwaitPort", "AwaitOpen", "AwaitCallback", "AwaitToken", "Failed"} ) =>
              /\ pc[p] \in {"Idle", "AwaitPort", "AwaitOpen", "AwaitCallback", "AwaitToken", "Failed"}
              /\ fs' = fs
              /\ ( /\ pc'[p] = "Failed"
                   /\ err'[p].kind \notin {"DuplicateProfile", "EmptyName"} ) =>
                     /\ cmd'[p].name \notin fs'.profileDirs
                     /\ fs'.credentials[cmd'[p].name] = Null
                     /\ fs'.profileConfig[cmd'[p].name] = Null
      ]_vars

\* A flow failed in the token exchange next to a profile that is the
\* default: nothing of the new profile is in the store.
C27_Witness ==
    \E p \in Procs :
        /\ cmd[p].kind = "add"
        /\ pc[p] = "Failed"
        /\ err[p] = Err("TokenExchange", Undefined)
        /\ effects[p].exchanges = 1
        /\ ~profileExists(fs, cmd[p].name)
        /\ Cardinality(fs.profileDirs) = 1
        /\ storedDefault(fs) \in fs.profileDirs
----------------------------------------------------------------------------
(* The default pointer over sequences of profiles commands (ArgsSpec) *)

\* C28: whenever no profiles command is under way, the default pointer is
\* absent or names a profile that exists.
C28_DefaultExists ==
    Quiescent =>
        \/ storedDefault(fs) = Undefined
        \/ profileExists(fs, storedDefault(fs))
----------------------------------------------------------------------------
(* A removed profile and the sessions that loaded it (ConcSpec) *)

\* C29: a profile that is not in the store -- deleteProfile has removed it --
\* comes to exist, or to have a credentials record, only by a step of a
\* profiles add for it whose authorization flow has succeeded (the step that
\* persists the credentials, or the handler's step after it); no token
\* update of an invocation that loaded the profile before the removal brings
\* it back.
C29_RemovedStaysRemoved ==
    [][ \A n \in ProfileNames :
          ( /\ ~profileExists(fs, n)
            /\ profileExists(fs', n) \/ fs'.credentials[n] # Null ) =>
              \E p \in Procs :
                  /\ cmd[p].kind = "add"
                  /\ cmd[p].name = n
                  /\ \/ pc[p] = "AwaitToken" /\ pc'[p] = "Persisted"
                     \/ pc[p] = "Persisted" /\ pc'[p] = "Done"
      ]_vars
----------------------------------------------------------------------------
(* Two adds of one name side by side (ConcSpec) *)

\* C30: of the profiles add invocations for one name, only one persists
\* credentials: an add writes the credentials of a name only when the store
\* holds none for it, so credentials that a successful add has written are
\* not overwritten by another add.
C30_OneAddPersists ==
    [][ \A p \in Procs :
          ( /\ cmd[p].kind = "add"
            /\ pc[p] = "AwaitToken"
            /\ pc'[p] = "Persisted" ) =>
              /\ ~profileExists(fs, cmd[p].name)
              /\ fs.credentials[cmd[p].name] = Null
      ]_vars

====
